---------------------------- MODULE Spec2Model ----------------------------
(***************************************************************************)
(* A model of burro's layout engine (src/src/layout.rs): LayoutBuilder,    *)
(* its parameter save-stacks, the page/column/cursor bookkeeping and the   *)
(* line builder.                                                           *)
(*                                                                         *)
(* Lengths are f64 points in the source.  Here every length is an integer  *)
(* number of eighths of a point (Pt(n) is n points), so that pt_size / 4   *)
(* and pt_size / 8 are exact for whole point sizes.  An f64 quotient that  *)
(* is not a whole number of eighths is rounded down (FDiv).                *)
(*                                                                         *)
(* Option<T> is a sequence: <<>> is None and <<v>> is Some(v).             *)
(* Result<(), BurroError> is a record [lb, err]: err = "Ok" or the error   *)
(* kind; a panic (todo!(), unreachable!(), a failed expect or index) is    *)
(* err = "Panic", with lb the builder as the panic left it.                *)
(***************************************************************************)
EXTENDS Integers, Sequences, FiniteSets, TLC

VARIABLES
    lb,     \* the LayoutBuilder (self): every field of the struct
    pc,     \* where build() is: "config", "body", "par", "done", "failed";
            \* where the parser is with an argument: "parse", "parsed"
    err,    \* what build() returns: "Ok" so far, or the error kind
    doc,    \* the nodes and style blocks of the document handled so far
    open    \* the style wrappers of the paragraph that are entered, innermost last

vars == <<lb, pc, err, doc, open>>

-----------------------------------------------------------------------------
(* Numbers *)

Pt(n) == 8 * n

FDiv(a, b) == a \div b

Min(a, b) == IF a < b THEN a ELSE b

Abs(a) == IF a < 0 THEN 0 - a ELSE a

None == << >>

Some(v) == << v >>

IsSome(o) == o # << >>

Unwrap(o) == o[1]

Last(q) == q[Len(q)]

Front(q) == SubSeq(q, 1, Len(q) - 1)

Ok(s) == [lb |-> s, err |-> "Ok"]

Err(s, e) == [lb |-> s, err |-> e]

Explicit(v) == [kind |-> "Explicit", val |-> v]

Relative(v) == [kind |-> "Relative", val |-> v]

Reset == [kind |-> "Reset", val |-> 0]

Alignments == {"Left", "Right", "Center", "Justify"}

\* Font is a bitflags set over BOLD, ITALIC, SMALLCAPS; ROMAN is the empty set.
ROMAN == {}

BOLD == {"BOLD"}

ITALIC == {"ITALIC"}

SMALLCAPS == {"SMALLCAPS"}

\* font_num: the bits as u16 (SMALLCAPS is the decimal literal 000000100).
font_num(f) ==
    (IF "BOLD" \in f THEN 1 ELSE 0) + (IF "ITALIC" \in f THEN 2 ELSE 0)
        + (IF "SMALLCAPS" \in f THEN 100 ELSE 0)

-----------------------------------------------------------------------------
(* LayoutBuilder::new *)

Inch == Pt(72)

DefaultPtSize == Pt(12)

DefaultParams ==
    [ margin_top |-> Inch,
      margin_bottom |-> Inch,
      page_margin_left |-> Inch,
      page_margin_right |-> Inch,
      col_margin_left |-> Inch,
      col_margin_right |-> Inch,
      alignment |-> "Justify",
      leading |-> Pt(2),
      pt_size |-> DefaultPtSize,
      page_width |-> FDiv(Inch * 17, 2),
      space_width |-> FDiv(DefaultPtSize, 4),
      min_space_width |-> FDiv(DefaultPtSize, 8),
      page_height |-> Inch * 11,
      par_space |-> FDiv(5 * DefaultPtSize, 4),
      font_family |-> "default",
      par_indent |-> 2 * DefaultPtSize,
      hyphenate |-> TRUE,
      consecutive_hyphens |-> 3,
      letter_space |-> 0,
      ligatures |-> TRUE ]

Page_new(width, height) == [boxes |-> << >>, height |-> height, width |-> width]

LayoutBuilder_new ==
    LET params == DefaultParams
        cursor == [x |-> params.page_margin_left,
                   y |-> params.page_height
                            - (params.margin_top + params.pt_size + params.leading)]
    IN  [ params |-> params,
          cursor |-> cursor,
          pages |-> << >>,
          font |-> ROMAN,
          current_page |-> Page_new(params.page_width, params.page_height),
          emit_chunks |-> << >>,
          par_counter |-> 0,
          alignments |-> << >>,
          margins |-> << >>,
          pt_sizes |-> << >>,
          pending_width |-> None,
          pending_height |-> None,
          page_heights |-> << >>,
          page_widths |-> << >>,
          leadings |-> << >>,
          space_widths |-> << >>,
          par_indents |-> << >>,
          par_spaces |-> << >>,
          families |-> << >>,
          fonts |-> << >>,
          consecutive_hyphens |-> << >>,
          indent_first |-> FALSE,
          hyphens |-> 0,
          letter_spaces |-> << >>,
          current_col |-> 1,
          column_count |-> 1,
          column_width |-> params.page_width - params.page_margin_left
                              - params.page_margin_right,
          column_gutter |-> 0,
          column_top |-> cursor.y,
          column_bottom |-> cursor.y,
          current_tabs |-> None,
          current_tab_ix |-> None,
          current_tab |-> None,
          pre_tab_config |-> None,
          tab_lists |-> << >>,
          tab_top |-> None ]

-----------------------------------------------------------------------------
(* Margins, cursor origin, pages *)

set_alignment(s, alignment) ==
    [s EXCEPT !.params.alignment = alignment,
              !.alignments = Append(@, s.params.alignment)]

\* The todo!() for margins changed in multi-column mode comes last: the panic
\* leaves the margins already assigned.
set_all_margins(s, value) ==
    LET s1 == [s EXCEPT !.margins = Append(@, s.params.margin_bottom),
                        !.params.margin_bottom = value,
                        !.params.margin_top = value,
                        !.params.page_margin_left = value,
                        !.params.page_margin_right = value,
                        !.column_width = s.params.page_width - value - value,
                        !.params.col_margin_left = value,
                        !.params.col_margin_right = value]
    IN  IF s.column_count > 1 THEN Err(s1, "Panic") ELSE Ok(s1)

set_cursor_top_left(s) ==
    [s EXCEPT !.cursor.x = s.params.page_margin_left,
              !.cursor.y = s.params.page_height
                              - (s.params.margin_top + s.params.pt_size
                                    + s.params.leading)]

recalc_margins(s, margin) ==
    [s EXCEPT !.params.margin_bottom = margin,
              !.params.margin_top = margin,
              !.params.page_margin_left = margin,
              !.params.page_margin_right = margin,
              !.column_width = s.params.page_width - margin - margin,
              !.params.col_margin_left = margin,
              !.params.col_margin_right = margin]

\* set_paragraph_cursor indenting the first paragraph like the others.
IndentsEveryParagraph(s) ==
    [s EXCEPT !.cursor.x = s.params.col_margin_left + s.params.par_indent]

set_paragraph_cursor(s) ==
    IF s.par_counter = 0 /\ ~s.indent_first
    THEN [s EXCEPT !.cursor.x = s.params.col_margin_left]
    ELSE [s EXCEPT !.cursor.x = s.params.col_margin_left + s.params.par_indent]

\* next_page_dims updates the builder and returns (width, height); here it
\* returns the updated builder, whose params.page_width and params.page_height
\* are the pair returned.
\* next_page_dims taking the pending dimensions without saving the old ones.
PendingDimsNotSaved(s) ==
    LET height(s1) ==
            IF IsSome(s1.pending_height)
            THEN [s1 EXCEPT !.params.page_height = Unwrap(s1.pending_height),
                            !.pending_height = None]
            ELSE s1
    IN  height(IF IsSome(s.pending_width)
               THEN [s EXCEPT !.params.page_width = Unwrap(s.pending_width),
                              !.pending_width = None,
                              !.column_width = Unwrap(s.pending_width)
                                                  - s.params.page_margin_left
                                                  - s.params.page_margin_right]
               ELSE s)

next_page_dims(s) ==
    LET height(s1) ==
            IF IsSome(s1.pending_height)
            THEN [s1 EXCEPT !.page_heights = Append(@, s1.params.page_height),
                            !.params.page_height = Unwrap(s1.pending_height),
                            !.pending_height = None]
            ELSE s1
    IN  height(IF IsSome(s.pending_width)
               THEN [s EXCEPT !.page_widths = Append(@, s.params.page_width),
                              !.params.page_width = Unwrap(s.pending_width),
                              !.pending_width = None,
                              !.column_width = Unwrap(s.pending_width)
                                                  - s.params.page_margin_left
                                                  - s.params.page_margin_right]
               ELSE s)

\* new_page: the builder after next_page_dims; the page made is
\* Page_new(params.page_width, params.page_height) of the result.
new_page(s) == next_page_dims(s)

\* finish_page putting the filled page in front of the pages list.
PagePutFirst(s) ==
    LET replace(s1) ==
            [s1 EXCEPT !.pages = <<s.current_page>> \o @,
                       !.current_page = Page_new(s1.params.page_width,
                                                 s1.params.page_height)]
    IN  replace(new_page(s))

finish_page(s) ==
    LET replace(s1) ==
            [s1 EXCEPT !.pages = Append(@, s.current_page),
                       !.current_page = Page_new(s1.params.page_width,
                                                 s1.params.page_height)]
    IN  replace(new_page(s))

move_to_next_page(s) ==
    LET top(s1, y) ==
            [s1 EXCEPT !.cursor.y = y,
                       !.current_col = 1,
                       !.params.col_margin_left = s1.params.page_margin_left,
                       !.params.col_margin_right = s1.params.page_margin_left
                                                      + s1.column_width,
                       !.column_top = y]
        place(s1) ==
            top(s1, s1.params.page_height
                       - (s1.params.margin_top + s1.params.pt_size + s1.params.leading))
    IN  place(finish_page(s))

\* advance_y_cursor leaving the cursor where it is.
CursorStaysPut(s, delta_y) == s

advance_y_cursor(s, delta_y) ==
    LET y == s.cursor.y - delta_y
        s1 == [s EXCEPT !.cursor.y = y,
                        !.column_bottom = IF s.current_col = 1 THEN y ELSE @]
    IN  IF y < s1.params.margin_bottom
        THEN IF s1.current_col >= s1.column_count
             THEN move_to_next_page(s1)
             ELSE [s1 EXCEPT !.current_col = @ + 1,
                             !.params.col_margin_left =
                                 @ + s1.column_width + s1.column_gutter,
                             !.params.col_margin_right =
                                 @ + s1.column_width + s1.column_gutter,
                             !.cursor.y = s1.column_top]
        ELSE s1

-----------------------------------------------------------------------------
(* The parameter save-stacks: handle_reset_val and the commands that keep    *)
(* their own stack (Align, Margins, PageWidth, PageHeight, PtSize)           *)

\* Faulty variants of the save-stack handlers, against which the properties
\* of the stacks are tested.

\* Relative changes the value but saves no frame.
RelativeSavesNothing(input, value, queue, additive) ==
    CASE input.kind = "Explicit" ->
            [value |-> input.val, queue |-> Append(queue, value), err |-> "Ok"]
      [] input.kind = "Relative" ->
            IF additive
            THEN [value |-> value + input.val, queue |-> queue, err |-> "Ok"]
            ELSE [value |-> value, queue |-> queue, err |-> "Panic"]
      [] OTHER ->
            IF queue # << >>
            THEN [value |-> Last(queue), queue |-> Front(queue), err |-> "Ok"]
            ELSE [value |-> value, queue |-> queue, err |-> "EmptyReset"]

\* Reset pops a frame and forgets to restore the value it holds.
ResetKeepsValue(input, value, queue, additive) ==
    CASE input.kind = "Explicit" ->
            [value |-> input.val, queue |-> Append(queue, value), err |-> "Ok"]
      [] input.kind = "Relative" ->
            IF additive
            THEN [value |-> value + input.val, queue |-> Append(queue, value),
                  err |-> "Ok"]
            ELSE [value |-> value, queue |-> queue, err |-> "Panic"]
      [] OTHER ->
            IF queue # << >>
            THEN [value |-> value, queue |-> Front(queue), err |-> "Ok"]
            ELSE [value |-> value, queue |-> queue, err |-> "EmptyReset"]

\* Reset on an empty stack is taken for a success.
EmptyResetIsOk(input, value, queue, additive) ==
    CASE input.kind = "Explicit" ->
            [value |-> input.val, queue |-> Append(queue, value), err |-> "Ok"]
      [] input.kind = "Relative" ->
            IF additive
            THEN [value |-> value + input.val, queue |-> Append(queue, value),
                  err |-> "Ok"]
            ELSE [value |-> value, queue |-> queue, err |-> "Panic"]
      [] OTHER ->
            IF queue # << >>
            THEN [value |-> Last(queue), queue |-> Front(queue), err |-> "Ok"]
            ELSE [value |-> value, queue |-> queue, err |-> "Ok"]

\* PageWidth changes params.page_width at once instead of buffering it.
PageWidthAtOnce(s, arg) ==
    CASE arg.kind = "Explicit" ->
            Ok([s EXCEPT !.params.page_width = arg.val,
                         !.page_widths = Append(@, s.params.page_width)])
      [] arg.kind = "Reset" ->
            IF s.page_widths # << >>
            THEN Ok([s EXCEPT !.params.page_width = Last(s.page_widths),
                              !.page_widths = Front(@)])
            ELSE Err(s, "EmptyReset")
      [] OTHER ->
            Ok([s EXCEPT !.params.page_width = @ + arg.val,
                         !.page_widths = Append(@, s.params.page_width)])

\* PageWidth(Reset) without the exception for a pending width.
ResetIgnoresPending(s, arg) ==
    CASE arg.kind = "Explicit" -> Ok([s EXCEPT !.pending_width = Some(arg.val)])
      [] arg.kind = "Reset" ->
            IF s.page_widths # << >>
            THEN Ok([s EXCEPT !.pending_width = Some(Last(s.page_widths)),
                              !.page_widths = Front(@)])
            ELSE Err(s, "EmptyReset")
      [] OTHER ->
            Ok([s EXCEPT !.page_widths = IF IsSome(s.pending_width)
                                         THEN Append(@, Unwrap(s.pending_width))
                                         ELSE @,
                         !.pending_width = Some(s.params.page_width + arg.val)])

\* UpdateRelative::update: += for f64 and u64; the default body, which Font and
\* String keep, is unreachable!().
handle_reset_val(input, value, queue, additive) ==
    CASE input.kind = "Explicit" ->
            [value |-> input.val, queue |-> Append(queue, value), err |-> "Ok"]
      [] input.kind = "Relative" ->
            IF additive
            THEN [value |-> value + input.val, queue |-> Append(queue, value),
                  err |-> "Ok"]
            ELSE [value |-> value, queue |-> queue, err |-> "Panic"]
      [] OTHER ->
            IF queue # << >>
            THEN [value |-> Last(queue), queue |-> Front(queue), err |-> "Ok"]
            ELSE [value |-> value, queue |-> queue, err |-> "EmptyReset"]

cmd_Align(s, arg) ==
    CASE arg.kind = "Explicit" -> Ok(set_alignment(s, arg.val))
      [] arg.kind = "Reset" ->
            IF s.alignments # << >>
            THEN Ok([s EXCEPT !.params.alignment = Last(s.alignments),
                              !.alignments = Front(@)])
            ELSE Err(s, "EmptyReset")
      [] OTHER -> Err(s, "InvalidRelative")

cmd_Margins(s, arg) ==
    LET cursor(r) ==
            IF r.err # "Ok" THEN r
            ELSE IF r.lb.emit_chunks = << >> THEN Ok(set_paragraph_cursor(r.lb))
            ELSE r
    IN  cursor(CASE arg.kind = "Explicit" -> set_all_margins(s, arg.val)
                 [] arg.kind = "Reset" ->
                       IF s.margins # << >>
                       THEN Ok(recalc_margins([s EXCEPT !.margins = Front(@)],
                                              Last(s.margins)))
                       ELSE Err(s, "EmptyReset")
                 [] OTHER -> set_all_margins(s, s.params.margin_top + arg.val))

cmd_PageWidth(s, arg) ==
    CASE arg.kind = "Explicit" -> Ok([s EXCEPT !.pending_width = Some(arg.val)])
      [] arg.kind = "Reset" ->
            IF s.page_widths # << >>
            THEN Ok([s EXCEPT !.pending_width = Some(Last(s.page_widths)),
                              !.page_widths = Front(@)])
            ELSE IF IsSome(s.pending_width)
            THEN Ok([s EXCEPT !.pending_width = None])
            ELSE Err(s, "EmptyReset")
      [] OTHER ->
            Ok([s EXCEPT !.page_widths = IF IsSome(s.pending_width)
                                         THEN Append(@, Unwrap(s.pending_width))
                                         ELSE @,
                         !.pending_width = Some(s.params.page_width + arg.val)])

cmd_PageHeight(s, arg) ==
    CASE arg.kind = "Explicit" -> Ok([s EXCEPT !.pending_height = Some(arg.val)])
      [] arg.kind = "Reset" ->
            IF s.page_heights # << >>
            THEN Ok([s EXCEPT !.pending_height = Some(Last(s.page_heights)),
                              !.page_heights = Front(@)])
            ELSE IF IsSome(s.pending_height)
            THEN Ok([s EXCEPT !.pending_height = None])
            ELSE Err(s, "EmptyReset")
      [] OTHER ->
            Ok([s EXCEPT !.page_heights = IF IsSome(s.pending_height)
                                          THEN Append(@, Unwrap(s.pending_height))
                                          ELSE @,
                         !.pending_height = Some(s.params.page_height + arg.val)])

cmd_PageBreak(s) == Ok(set_cursor_top_left(finish_page(s)))

cmd_Leading(s, arg) ==
    LET r == handle_reset_val(arg, s.params.leading, s.leadings, TRUE)
    IN  [lb |-> [s EXCEPT !.params.leading = r.value, !.leadings = r.queue],
         err |-> r.err]

cmd_SpaceWidth(s, arg) ==
    LET r == handle_reset_val(arg, s.params.space_width, s.space_widths, TRUE)
    IN  [lb |-> [s EXCEPT !.params.space_width = r.value, !.space_widths = r.queue],
         err |-> r.err]

cmd_ParIndent(s, arg) ==
    LET r == handle_reset_val(arg, s.params.par_indent, s.par_indents, TRUE)
    IN  [lb |-> [s EXCEPT !.params.par_indent = r.value, !.par_indents = r.queue],
         err |-> r.err]

cmd_ParSpace(s, arg) ==
    LET r == handle_reset_val(arg, s.params.par_space, s.par_spaces, TRUE)
    IN  [lb |-> [s EXCEPT !.params.par_space = r.value, !.par_spaces = r.queue],
         err |-> r.err]

cmd_Family(s, arg) ==
    LET r == handle_reset_val(arg, s.params.font_family, s.families, FALSE)
    IN  [lb |-> [s EXCEPT !.params.font_family = r.value, !.families = r.queue],
         err |-> r.err]

cmd_Font(s, arg) ==
    LET r == handle_reset_val(arg, s.font, s.fonts, FALSE)
    IN  [lb |-> [s EXCEPT !.font = r.value, !.fonts = r.queue], err |-> r.err]

cmd_ConsecutiveHyphens(s, arg) ==
    LET r == handle_reset_val(arg, s.params.consecutive_hyphens,
                              s.consecutive_hyphens, TRUE)
    IN  [lb |-> [s EXCEPT !.params.consecutive_hyphens = r.value,
                          !.consecutive_hyphens = r.queue],
         err |-> r.err]

cmd_LetterSpace(s, arg) ==
    LET r == handle_reset_val(arg, s.params.letter_space, s.letter_spaces, TRUE)
    IN  [lb |-> [s EXCEPT !.params.letter_space = r.value,
                          !.letter_spaces = r.queue],
         err |-> r.err]

\* PtSize changing the minimum space width only when the size is given outright.
RelativeKeepsMinSpace(s, arg) ==
    CASE arg.kind = "Explicit" ->
            Ok([s EXCEPT !.params.pt_size = arg.val,
                         !.params.space_width = FDiv(arg.val, 4),
                         !.params.min_space_width = FDiv(arg.val, 8),
                         !.pt_sizes = Append(@, s.params.pt_size)])
      [] arg.kind = "Reset" ->
            IF s.pt_sizes # << >>
            THEN Ok([s EXCEPT !.pt_sizes = Front(@),
                              !.params.pt_size = Last(s.pt_sizes),
                              !.params.space_width = FDiv(Last(s.pt_sizes), 4)])
            ELSE Err(s, "EmptyReset")
      [] OTHER ->
            Ok([s EXCEPT !.params.space_width = FDiv(s.params.pt_size + arg.val, 4),
                         !.pt_sizes = Append(@, s.params.pt_size),
                         !.params.pt_size = s.params.pt_size + arg.val])

cmd_PtSize(s, arg) ==
    CASE arg.kind = "Explicit" ->
            Ok([s EXCEPT !.params.pt_size = arg.val,
                         !.params.space_width = FDiv(arg.val, 4),
                         !.params.min_space_width = FDiv(arg.val, 8),
                         !.pt_sizes = Append(@, s.params.pt_size)])
      [] arg.kind = "Reset" ->
            IF s.pt_sizes # << >>
            THEN LET size == Last(s.pt_sizes)
                 IN  Ok([s EXCEPT !.pt_sizes = Front(@),
                                  !.params.pt_size = size,
                                  !.params.space_width = FDiv(size, 4),
                                  !.params.min_space_width = FDiv(size, 8)])
            ELSE Err(s, "EmptyReset")
      [] OTHER ->
            LET size == s.params.pt_size + arg.val
            IN  Ok([s EXCEPT !.params.space_width = FDiv(size, 4),
                             !.params.min_space_width = FDiv(size, 8),
                             !.pt_sizes = Append(@, s.params.pt_size),
                             !.params.pt_size = size])

cmd_Columns(s, opts) ==
    IF opts.count # s.column_count
    THEN LET available_width == s.params.page_width - s.params.page_margin_left
                                   - s.params.page_margin_right
             total_gutter == opts.gutter * (opts.count - 1)
             col_width == FDiv(available_width - total_gutter, opts.count)
             y == Min(s.cursor.y, s.column_bottom)
             s1 == [s EXCEPT !.params.col_margin_left = s.params.page_margin_left,
                             !.params.col_margin_right = s.params.page_margin_left,
                             !.cursor.x = s.params.page_margin_left,
                             !.column_top = s.cursor.y,
                             !.cursor.y = y]
             line == s.params.leading + s.params.pt_size + s.params.par_space
             s2 == IF y - s.params.margin_bottom < line
                   THEN advance_y_cursor(s1, line)
                   ELSE s1
         IN  Ok([s2 EXCEPT !.column_width = col_width,
                           !.column_gutter = opts.gutter,
                           !.column_count = opts.count,
                           !.current_col = 1])
    ELSE Ok(s)

\* ColumnBreak turning the page whichever column is current.
ColumnBreakTurnsPage(s) == Ok(move_to_next_page(s))

cmd_ColumnBreak(s) ==
    IF s.current_col >= s.column_count
    THEN Ok(move_to_next_page(s))
    ELSE Ok([s EXCEPT !.current_col = @ + 1,
                      !.params.col_margin_left = @ + s.column_width + s.column_gutter,
                      !.params.col_margin_right = @ + s.column_width + s.column_gutter,
                      !.cursor.x = @ + s.column_width + s.column_gutter,
                      !.cursor.y = s.column_top])

cmd_Ligatures(s, l) == Ok([s EXCEPT !.params.ligatures = l])

-----------------------------------------------------------------------------
(* Word Shaper: EmitChunk.  A string is a sequence of character codes; the   *)
(* shaper (rustybuzz) gives one glyph per character, glyph_id the character  *)
(* code, x_advance XAdvance(c) font units and y_advance 0 (horizontal text). *)

Hyphen == 45

OPEN_QUOTE == 8220

CLOSE_QUOTE == 8221

Upem == 1000

XAdvance(c) == 500

YAdvance(c) == 0

Str(str) == [kind |-> "Str", str |-> str]

Space == [kind |-> "Space", str |-> << >>]

NonBreakingSpace == [kind |-> "NonBreakingSpace", str |-> << >>]

font_units_to_points(units, upem, pt_size) == FDiv(units * pt_size, upem)

RECURSIVE shape_glyphs(_, _, _, _, _, _)
shape_glyphs(str, ix, x, font_id, pt_size, letter_space) ==
    IF ix > Len(str) THEN << >>
    ELSE LET width == font_units_to_points(XAdvance(str[ix]), Upem, pt_size)
                         + letter_space
             delta_y == font_units_to_points(YAdvance(str[ix]), Upem, pt_size)
         IN  << [glyph_id |-> str[ix], font_id |-> font_id, pt_size |-> pt_size,
                 width |-> width, delta_y |-> delta_y, delta_x |-> x] >>
             \o shape_glyphs(str, ix + 1, x + width, font_id, pt_size, letter_space)

EmitChunk_new(word, font_id, pt_size, ligatures, letter_space, space_width) ==
    CASE word.kind = "Str" ->
            [kind |-> "Word", pt_size |-> pt_size, width |-> 0,
             glyphs |-> shape_glyphs(word.str, 1, 0, font_id, pt_size, letter_space),
             str |-> word.str]
      [] word.kind = "Space" ->
            [kind |-> "Space", pt_size |-> pt_size, width |-> space_width,
             glyphs |-> << >>, str |-> << >>]
      [] OTHER ->
            [kind |-> "NonBreakingSpace", pt_size |-> pt_size, width |-> space_width,
             glyphs |-> << >>, str |-> << >>]

is_space(chunk) == chunk.kind # "Word"

chunk_width(chunk) ==
    IF chunk.kind = "Word"
    THEN IF chunk.glyphs = << >> THEN 0
         ELSE Last(chunk.glyphs).delta_x + Last(chunk.glyphs).width
    ELSE chunk.width

create_emit_chunk(s, word, font_id) ==
    EmitChunk_new(word, font_id, s.params.pt_size, s.params.ligatures,
                  s.params.letter_space, s.params.space_width)

-----------------------------------------------------------------------------
(* Line measures *)

RECURSIVE word_width_sum(_)
word_width_sum(line) ==
    IF line = << >> THEN 0
    ELSE (IF is_space(Head(line)) THEN 0 ELSE chunk_width(Head(line)))
            + word_width_sum(Tail(line))

RECURSIVE space_count(_)
space_count(line) ==
    IF line = << >> THEN 0
    ELSE (IF is_space(Head(line)) THEN 1 ELSE 0) + space_count(Tail(line))

total_line_width(s, line) ==
    IF line = << >> THEN 0
    ELSE LET count == space_count(line) - (IF is_space(Last(line)) THEN 1 ELSE 0)
         IN  word_width_sum(line) + s.params.space_width * count

\* justified_space_width giving every space its own width.
SpacesNotStretched(s, line) == [num |-> s.params.space_width, den |-> 1]

\* The f64 space_width + available / space_count, kept exact as the fraction
\* num / den; den = 0 is the f64 infinity or NaN of a line without spaces.
justified_space_width(s, line) ==
    LET available == s.column_width - total_line_width(s, line)
                        - (s.cursor.x - s.params.col_margin_left)
        count == space_count(line)
    IN  [num |-> s.params.space_width * count + available, den |-> count]

\* |a - w| < |b - w| for fractions a, b and a length w, as f64 compares them
\* (a comparison with NaN is false; an infinity is farther than any number).
closer_to(a, b, w) ==
    LET da == Abs(a.num - w * a.den)
        db == Abs(b.num - w * b.den)
    IN  CASE a.den > 0 /\ b.den > 0 -> da * b.den < db * a.den
          [] a.den > 0 /\ b.den = 0 -> db # 0
          [] OTHER -> FALSE

\* a >= w for a fraction a and a length w, as f64 compares them.
at_least(a, w) == IF a.den > 0 THEN a.num >= w * a.den ELSE a.num > 0

RECURSIVE pop_chunks_loop(_, _)
pop_chunks_loop(line, result) ==
    IF line = << >> THEN [line |-> line, result |-> result]
    ELSE IF Last(line).kind = "Space"
         THEN IF result # << >> THEN [line |-> line, result |-> result]
              ELSE pop_chunks_loop(Front(line), result)
         ELSE pop_chunks_loop(Front(line), << Last(line) >> \o result)

pop_chunks(line) == pop_chunks_loop(line, << >>)

-----------------------------------------------------------------------------
(* Line Emitter *)

RECURSIVE emit_glyphs(_, _, _, _)
emit_glyphs(s, glyphs, ix, start_x) ==
    IF ix > Len(glyphs) THEN s
    ELSE LET glyph == glyphs[ix]
             x == start_x + glyph.delta_x
             advance(s1) ==
                 IF glyph.delta_y > 0 THEN advance_y_cursor(s1, glyph.delta_y) ELSE s1
             finish(s2) ==
                 IF ix = Len(glyphs) THEN [s2 EXCEPT !.cursor.x = @ + glyph.width]
                 ELSE s2
         IN  emit_glyphs(
                 finish(advance([s EXCEPT
                     !.cursor.x = x,
                     !.current_page.boxes =
                         Append(@, [box |-> "Glyph",
                                    pos |-> [x |-> x, y |-> s.cursor.y],
                                    id |-> glyph.glyph_id,
                                    font |-> glyph.font_id,
                                    pts |-> glyph.pt_size])])),
                 glyphs, ix + 1, start_x)

\* The distance the cursor has moved over the spaces among the first n chunks
\* of a line: their own widths, or with Some(space_width) that f64 width times
\* their number, rounded down once.
space_advance(line, n, space_width) ==
    LET before == SubSeq(line, 1, n)
        count == space_count(before)
        RECURSIVE own(_)
        own(l) == IF l = << >> THEN 0
                  ELSE (IF is_space(Head(l)) THEN Head(l).width ELSE 0) + own(Tail(l))
    IN  IF IsSome(space_width)
        THEN IF count = 0 THEN 0
             ELSE FDiv(count * Unwrap(space_width).num, Unwrap(space_width).den)
        ELSE own(before)

\* emit_chunk for chunk ix of a line that starts at x0: a word's glyphs are
\* pushed at the cursor, a space moves the cursor by its width or by the
\* width given.
emit_chunk(s, line, ix, x0, space_width) ==
    LET x == x0 + word_width_sum(SubSeq(line, 1, ix - 1))
                + space_advance(line, ix - 1, space_width)
        after == x0 + word_width_sum(SubSeq(line, 1, ix))
                    + space_advance(line, ix, space_width)
    IN  IF line[ix].kind = "Word"
        THEN emit_glyphs([s EXCEPT !.cursor.x = x], line[ix].glyphs, 1, x)
        ELSE [s EXCEPT !.cursor.x = after]

RECURSIVE emit_chunks_from(_, _, _, _, _)
emit_chunks_from(s, line, ix, x0, space_width) ==
    IF ix > Len(line) THEN s
    ELSE emit_chunks_from(emit_chunk(s, line, ix, x0, space_width),
                          line, ix + 1, x0, space_width)

\* strip_trailing_spaces taking the last chunk of the line whatever it is.
StripsLastChunk(line) == IF line = << >> THEN line ELSE Front(line)

RECURSIVE strip_trailing_spaces(_)
strip_trailing_spaces(line) ==
    IF line = << >> THEN line
    ELSE IF is_space(Last(line)) THEN strip_trailing_spaces(Front(line))
    ELSE line

RECURSIVE max_pt_size(_)
max_pt_size(line) ==
    IF Len(line) = 1 THEN line[1].pt_size
    ELSE LET m == max_pt_size(Tail(line))
         IN  IF line[1].pt_size > m THEN line[1].pt_size ELSE m

finalize_line(s, line0, last) ==
    LET line == IF last THEN line0 ELSE strip_trailing_spaces(line0)
        emit(s1, available) ==
            emit_chunks_from(s1, line, 1,
                CASE s1.params.alignment = "Right" ->
                        s1.params.col_margin_left + available
                  [] s1.params.alignment = "Center" ->
                        s1.params.col_margin_left + FDiv(available, 2)
                  [] OTHER -> s1.cursor.x,
                IF s1.params.alignment = "Justify" /\ ~last
                THEN Some(justified_space_width(s1, line))
                ELSE None)
        align(s1) == emit(s1, s1.column_width - total_line_width(s1, line))
        raise(starting_size, max_size) ==
            align(IF max_size > starting_size
                  THEN advance_y_cursor(s, max_size - starting_size)
                  ELSE s)
    IN  IF line = << >> THEN s
        ELSE raise(line[1].pt_size, max_pt_size(line))

finalize_current_chunks(s, last) ==
    finalize_line([s EXCEPT !.emit_chunks = << >>], s.emit_chunks, last)

finish_paragraph(s) ==
    finalize_line([s EXCEPT !.emit_chunks = << >>], s.emit_chunks, TRUE)

-----------------------------------------------------------------------------
(* Line Builder: handle_text_block *)

\* The font files load_font_data read at construction, keyed by (family, style).
FontData ==
    { <<"default", ROMAN>>, <<"default", BOLD>>, <<"default", ITALIC>>,
      <<"default", BOLD \cup ITALIC>>, <<"default", SMALLCAPS>>,
      <<"serif", ROMAN>> }

family_ids(family) == IF family = "default" THEN 0 ELSE 1

font_id(family, num) == family_ids(family) * 65536 + num

\* Standard::hyphenate(s).breaks, in ascending order: the dictionary allows a
\* break after every second character that leaves two on each side.
RECURSIVE breaks_from(_, _)
breaks_from(str, b) ==
    IF b > Len(str) - 2 THEN << >>
    ELSE << b >> \o breaks_from(str, b + 2)

hyphenate(str) == breaks_from(str, 2)

\* best_break keeping the first break whose spacing is at least
\* min_space_width.
RECURSIVE FirstBreakThatFits(_, _, _, _, _, _)
FirstBreakThatFits(s, emit_chunks, str, breaks, fid, best) ==
    IF breaks = << >> THEN best
    ELSE LET b == Head(breaks)
             start == create_emit_chunk(s, Str(SubSeq(str, 1, b) \o << Hyphen >>), fid)
             rest == create_emit_chunk(s, Str(SubSeq(str, b + 1, Len(str))), fid)
             new_spacing == justified_space_width(s, Append(emit_chunks, start))
         IN  IF at_least(new_spacing, s.params.min_space_width)
             THEN [spacing |-> new_spacing, start |-> Some(start), rest |-> Some(rest)]
             ELSE FirstBreakThatFits(s, emit_chunks, str, Tail(breaks), fid, best)

RECURSIVE best_break(_, _, _, _, _, _)
best_break(s, emit_chunks, str, breaks, fid, best) ==
    IF breaks = << >> THEN best
    ELSE LET b == Head(breaks)
             start == create_emit_chunk(s, Str(SubSeq(str, 1, b) \o << Hyphen >>), fid)
             rest == create_emit_chunk(s, Str(SubSeq(str, b + 1, Len(str))), fid)
             new_spacing == justified_space_width(s, Append(emit_chunks, start))
         IN  IF closer_to(new_spacing, best.spacing, s.params.space_width)
                /\ at_least(new_spacing, s.params.min_space_width)
             THEN best_break(s, emit_chunks, str, Tail(breaks), fid,
                             [spacing |-> new_spacing, start |-> Some(start),
                              rest |-> Some(rest)])
             ELSE best_break(s, emit_chunks, str, Tail(breaks), fid, best)

\* try_hyphenate without the test of the hyphen counter against the limit.
HyphenatesPastLimit(s, emit_chunks, last_word, fid) ==
    LET split(best) ==
            IF IsSome(best.start)
            THEN [lb |-> finalize_line([s EXCEPT !.hyphens = @ + 1],
                                       Append(emit_chunks, Unwrap(best.start)),
                                       FALSE),
                  emit_chunks |-> << >>,
                  last_word |-> Unwrap(best.rest)]
            ELSE [lb |-> [s EXCEPT !.hyphens = 0], emit_chunks |-> emit_chunks,
                  last_word |-> last_word]
    IN  IF s.params.alignment = "Justify" /\ s.params.hyphenate
        THEN split(best_break(s, emit_chunks, last_word.str,
                              hyphenate(last_word.str), fid,
                              [spacing |-> justified_space_width(s, emit_chunks),
                               start |-> None, rest |-> None]))
        ELSE [lb |-> [s EXCEPT !.hyphens = 0], emit_chunks |-> emit_chunks,
              last_word |-> last_word]

\* The hyphenation attempt on last_word, the word that overflowed: the builder,
\* the line and the word to carry over afterwards.
try_hyphenate(s, emit_chunks, last_word, fid) ==
    LET split(best) ==
            IF IsSome(best.start)
            THEN [lb |-> finalize_line([s EXCEPT !.hyphens = @ + 1],
                                       Append(emit_chunks, Unwrap(best.start)),
                                       FALSE),
                  emit_chunks |-> << >>,
                  last_word |-> Unwrap(best.rest)]
            ELSE [lb |-> [s EXCEPT !.hyphens = 0], emit_chunks |-> emit_chunks,
                  last_word |-> last_word]
    IN  IF s.params.alignment = "Justify" /\ s.params.hyphenate
           /\ s.hyphens < s.params.consecutive_hyphens
        THEN split(best_break(s, emit_chunks, last_word.str,
                              hyphenate(last_word.str), fid,
                              [spacing |-> justified_space_width(s, emit_chunks),
                               start |-> None, rest |-> None]))
        ELSE [lb |-> [s EXCEPT !.hyphens = 0], emit_chunks |-> emit_chunks,
              last_word |-> last_word]

RECURSIVE drop_spaces(_, _)
drop_spaces(last_word, emit_chunks) ==
    IF ~is_space(last_word) THEN [some |-> TRUE, last_word |-> last_word,
                                  emit_chunks |-> emit_chunks]
    ELSE IF emit_chunks = << >> THEN [some |-> FALSE, last_word |-> last_word,
                                      emit_chunks |-> emit_chunks]
    ELSE drop_spaces(Last(emit_chunks), Front(emit_chunks))

\* The body of the overflow branch of the loop over the words: what it leaves
\* of the builder and of the local emit_chunks, and how it leaves the loop
\* body ("continue", "return" or "panic").  debug says whether the build has
\* debug assertions.
break_line(s, line, fid, debug) ==
    LET next_line(s1) ==
            advance_y_cursor([s1 EXCEPT !.cursor.x = s1.params.col_margin_left],
                             s1.params.leading + s1.params.pt_size)
        carry(s3, chunks) ==
            [lb |-> [s3 EXCEPT !.hyphens = 0], emit_chunks |-> chunks,
             exit |-> "continue"]
        dropped(h, d) ==
            IF ~d.some
            THEN [lb |-> h.lb, emit_chunks |-> << >>, exit |-> "return"]
            ELSE [lb |-> next_line(finalize_line(h.lb, d.emit_chunks, FALSE)),
                  emit_chunks |-> << d.last_word >>, exit |-> "continue"]
        hyphenated(h) == dropped(h, drop_spaces(h.last_word, h.emit_chunks))
        broken(last_words, emit_chunks) ==
            IF Len(last_words) > 1 /\ emit_chunks # << >>
            THEN carry(next_line(finalize_line(s, emit_chunks, FALSE)), last_words)
            ELSE IF emit_chunks = << >> /\ last_words # << >>
            THEN IF debug /\ ~IsSome(s.current_tab)
                 THEN [lb |-> s, emit_chunks |-> emit_chunks, exit |-> "panic"]
                 ELSE [lb |-> finalize_line(s, last_words, FALSE),
                       emit_chunks |-> emit_chunks, exit |-> "continue"]
            ELSE IF \A i \in 1..Len(last_words) : is_space(last_words[i])
            THEN [lb |-> s, emit_chunks |-> emit_chunks, exit |-> "continue"]
            ELSE hyphenated(try_hyphenate(s, emit_chunks, Last(last_words), fid))
        popped(p) == broken(p.result, p.line)
    IN  popped(pop_chunks(line))

RECURSIVE text_loop(_, _, _, _, _)
text_loop(s, emit_chunks, words, fid, debug) ==
    LET after(r) ==
            CASE r.exit = "continue" ->
                    text_loop(r.lb, r.emit_chunks, Tail(words), fid, debug)
              [] r.exit = "return" -> Ok(r.lb)
              [] OTHER -> Err(r.lb, "Panic")
        push(line) ==
            IF total_line_width(s, line) + (s.cursor.x - s.params.col_margin_left)
                  > s.column_width
            THEN after(break_line(s, line, fid, debug))
            ELSE text_loop(s, line, Tail(words), fid, debug)
    IN  IF words = << >> THEN Ok([s EXCEPT !.emit_chunks = emit_chunks])
        ELSE push(Append(emit_chunks, create_emit_chunk(s, Head(words), fid)))

\* handle_text_block emitting what is left of the line when the block ends.
TextBlockEndsLine(s, words, debug) ==
    LET flush(r) == IF r.err = "Ok" THEN Ok(finalize_current_chunks(r.lb, TRUE)) ELSE r
    IN  IF <<s.params.font_family, s.font>> \notin FontData
        THEN Err(s, "UnmappedFont")
        ELSE flush(text_loop([s EXCEPT !.emit_chunks = << >>], s.emit_chunks, words,
                             font_id(s.params.font_family, font_num(s.font)), debug))

handle_text_block(s, words, debug) ==
    IF <<s.params.font_family, s.font>> \notin FontData
    THEN Err(s, "UnmappedFont")
    ELSE text_loop([s EXCEPT !.emit_chunks = << >>], s.emit_chunks, words,
                   font_id(s.params.font_family, font_num(s.font)), debug)

\* generate_chunk shaping the mark whether the font's data is loaded or not.
ShapesWithoutFontData(s, word) ==
    Ok([s EXCEPT !.emit_chunks =
           Append(@, create_emit_chunk(s, word,
                         font_id(s.params.font_family, font_num(s.font))))])

generate_chunk(s, word) ==
    IF <<s.params.font_family, s.font>> \notin FontData
    THEN Err(s, "UnmappedFont")
    ELSE Ok([s EXCEPT !.emit_chunks =
                Append(@, create_emit_chunk(s, word,
                              font_id(s.params.font_family, font_num(s.font))))])

-----------------------------------------------------------------------------
(* The commands that close the pending line *)

\* Break emitting the pending line as a line that is not the last.
BreakSpreadsLine(s) ==
    LET next_line(s1) ==
            advance_y_cursor([s1 EXCEPT !.cursor.x = s1.params.page_margin_left],
                             s1.params.leading + s1.params.pt_size)
    IN  Ok(next_line(finalize_current_chunks(s, FALSE)))

cmd_Break(s) ==
    LET next_line(s1) ==
            advance_y_cursor([s1 EXCEPT !.cursor.x = s1.params.page_margin_left],
                             s1.params.leading + s1.params.pt_size)
    IN  Ok(next_line(finalize_current_chunks(s, TRUE)))

cmd_Spread(s) ==
    LET next_line(s1) ==
            advance_y_cursor([s1 EXCEPT !.cursor.x = s1.params.page_margin_left],
                             s1.params.leading + s1.params.pt_size)
    IN  Ok(next_line(finalize_current_chunks(s, FALSE)))

\* VSpace emitting the pending line as a line that is not the last.
VSpaceSpreadsLine(s, space) ==
    Ok(advance_y_cursor(finalize_current_chunks(s, FALSE), space))

cmd_VSpace(s, space) == Ok(advance_y_cursor(finalize_current_chunks(s, TRUE), space))

cmd_HSpace(s, arg) ==
    LET wrap(s2) ==
            IF s2.cursor.x >= s2.params.col_margin_left + s2.column_width
            THEN advance_y_cursor([s2 EXCEPT !.cursor.x = s2.params.page_margin_left],
                                  s2.params.leading + s2.params.pt_size)
            ELSE s2
        move(s1) ==
            IF arg.kind = "Explicit"
            THEN wrap([s1 EXCEPT !.cursor.x = @ + arg.val])
            ELSE [s1 EXCEPT !.cursor.x = s1.params.page_margin_left]
    IN  IF arg.kind = "Relative" THEN Err(s, "InvalidRelative")
        ELSE Ok(move(finalize_current_chunks(s, TRUE)))

\* opts.width is a fraction of the column width; here it is in hundredths.
cmd_Rule(s, opts) ==
    LET rule_width == FDiv(s.column_width * opts.width, 100)
        x == CASE s.params.alignment \in {"Justify", "Left"} ->
                     opts.indent + s.params.page_margin_left
               [] s.params.alignment = "Center" ->
                     FDiv(s.column_width - rule_width, 2) + opts.indent
                         + s.params.page_margin_left
               [] OTHER ->
                     s.params.col_margin_left + s.column_width - opts.indent
                         - rule_width
    IN  Ok([s EXCEPT !.current_page.boxes =
                Append(@, [box |-> "Rule",
                           start_pos |-> [x |-> x, y |-> s.cursor.y],
                           end_pos |-> [x |-> x + rule_width, y |-> s.cursor.y],
                           weight |-> opts.weight])])

-----------------------------------------------------------------------------
(* Tabs *)

\* A tab list is a sequence of Tab records [name, indent, direction, quad,
\* length]; current_tab_ix counts from 0 as in the source.
load_tab(s, tab) ==
    LET width(s1) ==
            [s1 EXCEPT !.column_width =
                           IF tab.quad THEN tab.length
                           ELSE s1.params.page_width - s1.params.col_margin_right
                                   - s1.params.page_margin_left - tab.indent,
                       !.current_tab = Some(tab)]
        place(col_left) ==
            width([s EXCEPT !.params.col_margin_left = col_left + tab.indent,
                            !.cursor.x = col_left + tab.indent,
                            !.cursor.y = IF IsSome(s.tab_top) THEN Unwrap(s.tab_top)
                                         ELSE @,
                            !.params.alignment = tab.direction])
    IN  IF ~IsSome(s.pre_tab_config) THEN Err(s, "Panic")
        ELSE Ok(place(Unwrap(s.pre_tab_config)[1]))

\* A LoadTabs that records the margins and the list and selects no tab.
LoadTabsSelectsNoTab(s, name) ==
    IF name \notin DOMAIN s.tab_lists THEN Err(s, "UndefinedTab")
    ELSE Ok([s EXCEPT !.pre_tab_config =
                          Some(<<s.params.col_margin_left,
                                 s.params.col_margin_right,
                                 s.column_width, s.params.alignment>>),
                      !.current_tabs = Some(s.tab_lists[name])])

cmd_LoadTabs(s, name) ==
    IF name \notin DOMAIN s.tab_lists THEN Err(s, "UndefinedTab")
    ELSE LET tabs == s.tab_lists[name]
             s1 == [s EXCEPT !.pre_tab_config =
                                 Some(<<s.params.col_margin_left,
                                        s.params.col_margin_right,
                                        s.column_width, s.params.alignment>>),
                             !.current_tab_ix = Some(0)]
         IN  IF tabs = << >> THEN Err(s1, "Panic")
             ELSE Ok([s1 EXCEPT !.current_tab = Some(tabs[1]),
                                !.current_tabs = Some(tabs)])

cmd_Tab(s, name) ==
    LET load(s1, tabs, ix) ==
            load_tab([s1 EXCEPT !.current_tab_ix = Some(ix - 1),
                                !.tab_top = IF IsSome(@) THEN @ ELSE Some(s1.cursor.y)],
                     tabs[ix])
        find(s1, tabs, found) ==
            IF found = {} THEN Err(s1, "UnloadedTab")
            ELSE load(s1, tabs, CHOOSE i \in found : \A j \in found : i <= j)
        search(s1, tabs) ==
            find(s1, tabs, {ix \in 1..Len(tabs) : tabs[ix].name = name})
        tab(s1) ==
            IF IsSome(s1.current_tabs) THEN search(s1, Unwrap(s1.current_tabs))
            ELSE Err(s1, "NoTabsLoaded")
    IN  tab(finalize_current_chunks(s, TRUE))

\* NextTab going back to the first tab after the last one.
NextTabWraps(s) ==
    LET load(s1, tabs, new_ix) ==
            IF new_ix >= Len(tabs)
            THEN load_tab([s1 EXCEPT !.current_tab_ix = Some(0)], tabs[1])
            ELSE load_tab([s1 EXCEPT !.current_tab_ix = Some(new_ix)],
                          tabs[new_ix + 1])
        next(s1) ==
            IF IsSome(s1.current_tab_ix)
            THEN IF ~IsSome(s1.current_tabs) THEN Err(s1, "Panic")
                 ELSE load(s1, Unwrap(s1.current_tabs), Unwrap(s1.current_tab_ix) + 1)
            ELSE Err(s1, "NoTabsLoaded")
    IN  next(finalize_current_chunks(s, TRUE))

cmd_NextTab(s) ==
    LET load(s1, tabs, new_ix) ==
            IF new_ix >= Len(tabs) THEN Err(s1, "TabOutOfRange")
            ELSE load_tab([s1 EXCEPT !.current_tab_ix = Some(new_ix)],
                          tabs[new_ix + 1])
        next(s1) ==
            IF IsSome(s1.current_tab_ix)
            THEN IF ~IsSome(s1.current_tabs) THEN Err(s1, "Panic")
                 ELSE load(s1, Unwrap(s1.current_tabs), Unwrap(s1.current_tab_ix) + 1)
            ELSE Err(s1, "NoTabsLoaded")
    IN  next(finalize_current_chunks(s, TRUE))

cmd_PreviousTab(s) ==
    LET load(s1, tabs, current_ix) ==
            IF current_ix > 0
            THEN load_tab([s1 EXCEPT !.current_tab_ix = Some(current_ix - 1)],
                          tabs[current_ix])
            ELSE Err(s1, "TabOutOfRange")
        previous(s1) ==
            IF IsSome(s1.current_tab_ix)
            THEN IF ~IsSome(s1.current_tabs) THEN Err(s1, "Panic")
                 ELSE load(s1, Unwrap(s1.current_tabs), Unwrap(s1.current_tab_ix))
            ELSE Err(s1, "NoTabsLoaded")
    IN  previous(finalize_current_chunks(s, TRUE))

\* QuitTabs leaving the alignment of the last tab.
QuitKeepsAlignment(s) ==
    IF IsSome(s.pre_tab_config)
    THEN LET pre == Unwrap(s.pre_tab_config)
         IN  Ok([s EXCEPT !.params.col_margin_left = pre[1],
                          !.params.col_margin_right = pre[2],
                          !.column_width = pre[3],
                          !.pre_tab_config = None,
                          !.current_tab = None,
                          !.current_tab_ix = None,
                          !.current_tabs = None])
    ELSE Err(s, "NoTabsLoaded")

cmd_QuitTabs(s) ==
    IF IsSome(s.pre_tab_config)
    THEN LET pre == Unwrap(s.pre_tab_config)
         IN  Ok([s EXCEPT !.params.col_margin_left = pre[1],
                          !.params.col_margin_right = pre[2],
                          !.params.alignment = pre[4],
                          !.column_width = pre[3],
                          !.pre_tab_config = None,
                          !.current_tab = None,
                          !.current_tab_ix = None,
                          !.current_tabs = None])
    ELSE Err(s, "NoTabsLoaded")

-----------------------------------------------------------------------------
(* build: apply_config *)

\* The tab lists of a config are a function from list names to sequences of
\* tab names.  The lists are visited in the HashMap's order; a failure leaves
\* tab_lists with the lists visited before it, which nothing reads any more.
assign_tabs(s, config) ==
    LET s1 == [s EXCEPT !.tab_lists = << >>, !.current_tabs = None]
        names == {config.tabs[i].name : i \in 1..Len(config.tabs)}
        by_name(n) == LET found == {i \in 1..Len(config.tabs) : config.tabs[i].name = n}
                      IN  config.tabs[CHOOSE i \in found : \A j \in found : i >= j]
        lists == config.tab_lists
    IN  IF config.tabs # << >>
        THEN IF \E l \in DOMAIN lists : \E i \in 1..Len(lists[l]) :
                    lists[l][i] \notin names
             THEN Err(s1, "UndefinedTab")
             ELSE Ok([s1 EXCEPT !.tab_lists =
                         [l \in DOMAIN lists |->
                             [i \in 1..Len(lists[l]) |-> by_name(lists[l][i])]]])
        ELSE Ok(s1)

apply_config(s, config) ==
    LET s1 == IF IsSome(config.margins)
              THEN set_cursor_top_left(recalc_margins(s, Unwrap(config.margins)))
              ELSE s
        s2 == IF IsSome(config.pt_size)
              THEN [s1 EXCEPT !.params.pt_size = Unwrap(config.pt_size),
                              !.params.space_width = FDiv(Unwrap(config.pt_size), 4),
                              !.params.min_space_width =
                                  FDiv(Unwrap(config.pt_size), 8)]
              ELSE s1
        opt(o, cur) == IF IsSome(o) THEN Unwrap(o) ELSE cur
        s3 == [s2 EXCEPT
                 !.params.page_width = opt(config.page_width, @),
                 !.params.page_height = opt(config.page_height, @),
                 !.params.leading = opt(config.leading, @),
                 !.params.par_space = opt(config.par_space, @),
                 !.params.par_indent = opt(config.par_indent, @),
                 !.params.space_width = opt(config.space_width, @),
                 !.params.font_family = opt(config.family, @),
                 !.font = opt(config.font, @),
                 !.params.alignment = opt(config.alignment, @),
                 !.indent_first = config.indent_first,
                 !.params.consecutive_hyphens = opt(config.consecutive_hyphens, @),
                 !.params.letter_space = opt(config.letter_space, @),
                 !.params.ligatures = opt(config.ligatures, @)]
        s4 == IF IsSome(config.page_height) \/ IsSome(config.page_width)
              THEN LET n == new_page(s3)
                   IN  set_cursor_top_left(
                           [n EXCEPT !.current_page =
                               Page_new(n.params.page_width, n.params.page_height)])
              ELSE s3
    IN  assign_tabs(s4, config)

-----------------------------------------------------------------------------
(* The documents explored: configs, command arguments, text *)

NoConfig ==
    [ margins |-> None, pt_size |-> None, page_width |-> None,
      page_height |-> None, leading |-> None, par_space |-> None,
      par_indent |-> None, space_width |-> None, family |-> None,
      font |-> None, indent_first |-> FALSE, alignment |-> None,
      consecutive_hyphens |-> None, letter_space |-> None, tabs |-> << >>,
      tab_lists |-> << >>, ligatures |-> None ]

TabL == [name |-> "L", indent |-> 0, direction |-> "Left", quad |-> TRUE,
         length |-> Pt(8)]

TabR == [name |-> "R", indent |-> Pt(10), direction |-> "Right", quad |-> TRUE,
         length |-> Pt(10)]

\* A 20 pt column of two 10 pt lines on the default 612 pt wide page, with two
\* tab stops.
NarrowConfig ==
    [NoConfig EXCEPT !.margins = Some(Pt(296)), !.page_height = Some(Pt(612)),
                     !.pt_size = Some(Pt(8)), !.par_space = Some(Pt(2)),
                     !.par_indent = Some(Pt(4)), !.tabs = <<TabL, TabR>>,
                     !.tab_lists = [l \in {"main"} |-> <<"L", "R">>]]

\* A page narrower than the default, right-aligned text.
SmallPageConfig ==
    [NoConfig EXCEPT !.page_width = Some(Pt(300)), !.alignment = Some("Right")]

Configs == {NoConfig, NarrowConfig, SmallPageConfig}

AlignArgs == {Explicit("Left"), Explicit("Right"), Explicit("Center"), Reset,
              Relative("Left")}

LengthArgs == {Explicit(Pt(4)), Relative(Pt(2)), Relative(-Pt(2)), Reset}

MarginsArgs == {Explicit(Pt(36)), Relative(Pt(8)), Reset}

PageDimArgs == {Explicit(Pt(400)), Relative(-Pt(100)), Reset}

PtSizeArgs == {Explicit(Pt(16)), Relative(Pt(4)), Relative(-Pt(4)), Reset}

FamilyArgs == {Explicit("serif"), Explicit("mono"), Relative("serif"), Reset}

FontArgs == {Explicit(BOLD), Relative(BOLD), Reset}

HyphensArgs == {Explicit(1), Relative(1), Reset}

HSpaceArgs == {Explicit(Pt(6)), Explicit(-Pt(6)), Relative(Pt(6)), Reset}

VSpaceArgs == {Pt(10), -Pt(10), Pt(700)}

ColumnsArgs == {[count |-> 2, gutter |-> Pt(4)], [count |-> 1, gutter |-> Pt(4)]}

RuleArgs == {[width |-> 100, indent |-> 0, weight |-> Pt(1)],
             [width |-> 50, indent |-> Pt(2), weight |-> Pt(1)]}

TabListNames == {"main", "none"}

TabNames == {"L", "R", "X"}

WordA == Str(<<97>>)

WordBC == Str(<<98, 99>>)

WordDEFG == Str(<<100, 101, 102, 103>>)

WordLong == Str(<<104, 105, 106, 107, 108, 109>>)

Texts ==
    { <<WordBC, Space>>,
      <<WordA, Space, WordDEFG, Space>>,
      <<WordBC, Space, WordBC, Space, WordBC, Space>>,
      <<WordLong, Space, WordA>>,
      <<WordA, NonBreakingSpace, WordBC, Space, WordA, NonBreakingSpace, WordLong>> }

-----------------------------------------------------------------------------
(* build: one action per node, style block and command *)

Init ==
    /\ lb = LayoutBuilder_new
    /\ pc = "config"
    /\ err = "Ok"
    /\ doc = << >>
    /\ open = << >>

\* A handler returned r: build goes on to `next`, or returns the error.
Returns(r, next, item) ==
    /\ lb' = r.lb
    /\ err' = r.err
    /\ pc' = IF r.err = "Ok" THEN next ELSE "failed"
    /\ doc' = Append(doc, item)

\* Node::Command at the top level and StyleBlock::Comm in a paragraph both
\* call handle_command.
Command(name, arg, r) ==
    /\ pc \in {"body", "par"}
    /\ Returns(r, pc, [op |-> name, arg |-> arg])
    /\ UNCHANGED open

ApplyConfig(configs) ==
    /\ pc = "config"
    /\ \E config \in configs :
          Returns(apply_config(lb, config), "body", [op |-> "Config", arg |-> config])
    /\ UNCHANGED open

Align == \E arg \in AlignArgs : Command("Align", arg, cmd_Align(lb, arg))

Margins == \E arg \in MarginsArgs : Command("Margins", arg, cmd_Margins(lb, arg))

PageWidth == \E arg \in PageDimArgs : Command("PageWidth", arg, cmd_PageWidth(lb, arg))

PageHeight ==
    \E arg \in PageDimArgs : Command("PageHeight", arg, cmd_PageHeight(lb, arg))

PageBreak == Command("PageBreak", None, cmd_PageBreak(lb))

Leading == \E arg \in LengthArgs : Command("Leading", arg, cmd_Leading(lb, arg))

SpaceWidth ==
    \E arg \in LengthArgs : Command("SpaceWidth", arg, cmd_SpaceWidth(lb, arg))

ParIndent == \E arg \in LengthArgs : Command("ParIndent", arg, cmd_ParIndent(lb, arg))

ParSpace == \E arg \in LengthArgs : Command("ParSpace", arg, cmd_ParSpace(lb, arg))

Family == \E arg \in FamilyArgs : Command("Family", arg, cmd_Family(lb, arg))

Font == \E arg \in FontArgs : Command("Font", arg, cmd_Font(lb, arg))

ConsecutiveHyphens ==
    \E arg \in HyphensArgs :
        Command("ConsecutiveHyphens", arg, cmd_ConsecutiveHyphens(lb, arg))

LetterSpace ==
    \E arg \in LengthArgs : Command("LetterSpace", arg, cmd_LetterSpace(lb, arg))

PtSize(sizes) == \E arg \in sizes : Command("PtSize", arg, cmd_PtSize(lb, arg))

Break == Command("Break", None, cmd_Break(lb))

Spread == Command("Spread", None, cmd_Spread(lb))

VSpace(spaces) == \E space \in spaces : Command("VSpace", space, cmd_VSpace(lb, space))

HSpace(args) == \E arg \in args : Command("HSpace", arg, cmd_HSpace(lb, arg))

Rule == \E opts \in RuleArgs : Command("Rule", opts, cmd_Rule(lb, opts))

Columns(options) ==
    \E opts \in options : Command("Columns", opts, cmd_Columns(lb, opts))

ColumnBreak == Command("ColumnBreak", None, cmd_ColumnBreak(lb))

DefineTab == Command("DefineTab", None, Err(lb, "TabDefInBody"))

TabList == Command("TabList", None, Err(lb, "TabListInBody"))

LoadTabs(names) ==
    \E name \in names : Command("LoadTabs", name, cmd_LoadTabs(lb, name))

Tab(names) == \E name \in names : Command("Tab", name, cmd_Tab(lb, name))

NextTab == Command("NextTab", None, cmd_NextTab(lb))

PreviousTab == Command("PreviousTab", None, cmd_PreviousTab(lb))

QuitTabs == Command("QuitTabs", None, cmd_QuitTabs(lb))

Ligatures == \E l \in BOOLEAN : Command("Ligatures", l, cmd_Ligatures(lb, l))

\* handle_paragraph up to its call of handle_style_blocks.
Paragraph ==
    /\ pc = "body"
    /\ Returns(Ok(set_paragraph_cursor(lb)), "par", [op |-> "Paragraph", arg |-> None])
    /\ UNCHANGED open

\* handle_paragraph after handle_style_blocks has returned.
end_paragraph(s) ==
    LET count(s3) == [s3 EXCEPT !.tab_top = None, !.par_counter = @ + 1]
        space(s1) ==
            advance_y_cursor([s1 EXCEPT !.cursor.x = s1.params.col_margin_left],
                             s1.params.leading + s1.params.pt_size
                                 + s1.params.par_space)
    IN  count(space(finish_paragraph(s)))

EndParagraph ==
    /\ pc = "par"
    /\ open = << >>
    /\ Returns(Ok(end_paragraph(lb)), "body", [op |-> "EndParagraph", arg |-> None])
    /\ UNCHANGED open

\* StyleBlock::Text.  A build with debug assertions and one without differ
\* where the debug_assert! of handle_text_block fails.
Text(texts) ==
    /\ pc = "par"
    /\ \E words \in texts, debug \in BOOLEAN :
          Returns(handle_text_block(lb, words, debug), "par",
                  [op |-> "Text", arg |-> words])
    /\ UNCHANGED open

\* StyleBlock::Bold, Italic, Smallcaps up to the recursive call: the bit is
\* set unless it is set already, and `set` remembers which.
\* enter_style setting nothing when another style bit is set.
OneStyleAtATime(s, bit) == IF s.font # {} THEN s ELSE [s EXCEPT !.font = @ \cup bit]

enter_style(s, bit) == IF s.font \cap bit # {} THEN s ELSE [s EXCEPT !.font = @ \cup bit]

Style(name, bit) ==
    /\ pc = "par"
    /\ Returns(Ok(enter_style(lb, bit)), "par", [op |-> name, arg |-> None])
    /\ open' = Append(open, [kind |-> name, bit |-> bit, set |-> lb.font \cap bit = {}])

Bold == Style("Bold", BOLD)

Italic == Style("Italic", ITALIC)

Smallcaps == Style("Smallcaps", SMALLCAPS)

Quote ==
    /\ pc = "par"
    /\ Returns(generate_chunk(lb, Str(<<OPEN_QUOTE>>)), "par",
               [op |-> "Quote", arg |-> None])
    /\ open' = Append(open, [kind |-> "Quote", bit |-> {}, set |-> FALSE])

OpenQuote ==
    /\ pc = "par"
    /\ Returns(generate_chunk(lb, Str(<<OPEN_QUOTE>>)), "par",
               [op |-> "OpenQuote", arg |-> None])
    /\ open' = Append(open, [kind |-> "OpenQuote", bit |-> {}, set |-> FALSE])

\* The end of the innermost style block: the bit it set is cleared, a Quote
\* gets its closing mark.
exit_style(s, block) ==
    CASE block.kind = "Quote" -> generate_chunk(s, Str(<<CLOSE_QUOTE>>))
      [] block.kind = "OpenQuote" -> Ok(s)
      [] OTHER -> IF block.set THEN Ok([s EXCEPT !.font = @ \ block.bit]) ELSE Ok(s)

EndStyle ==
    /\ pc = "par"
    /\ open # << >>
    /\ Returns(exit_style(lb, Last(open)), "par",
               [op |-> "EndStyle", arg |-> Last(open).kind])
    /\ open' = Front(open)

\* build after the loop over the nodes.
\* end_document finishing the page whether it holds a box or not.
EmptyPageFinished(s) == finish_page(s)

end_document(s) == IF s.current_page.boxes # << >> THEN finish_page(s) ELSE s

EndDocument ==
    /\ pc = "body"
    /\ Returns(Ok(end_document(lb)), "done", [op |-> "EndDocument", arg |-> None])
    /\ UNCHANGED open

-----------------------------------------------------------------------------
(* parser/units.rs: parse_unit.  An input is a sequence of characters; an    *)
(* f64 is kept exact as the fraction num / den.                              *)

Static(num, den) == [err |-> "Ok", kind |-> "Static", num |-> num, den |-> den]

RelativeVal(num, den) == [err |-> "Ok", kind |-> "Relative", num |-> num, den |-> den]

ParseError(e) == [err |-> e, kind |-> "None", num |-> 0, den |-> 1]

DigitChars == {"1", "5"}

\* \w of the regex among the characters of the inputs.
WordChars == DigitChars \cup {"p", "t", "i", "n", "m", "P"}

DigitVal(c) == IF c = "1" THEN 1 ELSE 5

\* The length of the longest prefix of str made of characters of set.
RECURSIVE prefix_len(_, _)
prefix_len(str, set) ==
    IF str = << >> \/ Head(str) \notin set THEN 0
    ELSE 1 + prefix_len(Tail(str), set)

\* RE.captures(input): the groups sign, num and unit, or no match.
captures(input) ==
    LET signed == input # << >> /\ Head(input) \in {"+", "-"}
        rest == IF signed THEN Tail(input) ELSE input
        n == prefix_len(rest, DigitChars \cup {"."})
        unit == SubSeq(rest, n + 1, Len(rest))
    IN  IF n >= 1 /\ \A i \in DOMAIN unit : unit[i] \in WordChars \cup {"%"}
        THEN Some([sign |-> IF signed THEN <<Head(input)>> ELSE << >>,
                   num |-> SubSeq(rest, 1, n),
                   unit |-> unit])
        ELSE None

RECURSIVE digits_value(_)
digits_value(str) ==
    IF str = << >> THEN 0 ELSE 10 * digits_value(SubSeq(str, 1, Len(str) - 1))
                                   + DigitVal(Last(str))

RECURSIVE pow10(_)
pow10(n) == IF n = 0 THEN 1 ELSE 10 * pow10(n - 1)

\* str.parse::<f64>() of a string of digits and dots: digits with at most one
\* dot among them, at least one digit.
parse_f64(str) ==
    LET dots == {i \in DOMAIN str : str[i] = "."}
        digits == SelectSeq(str, LAMBDA c : c # ".")
        frac == IF dots = {} THEN 0 ELSE Len(str) - (CHOOSE i \in dots : TRUE)
    IN  IF Cardinality(dots) > 1 \/ digits = << >> THEN None
        ELSE Some([num |-> digits_value(digits), den |-> pow10(frac)])

\* 2.83464576 as a fraction in lowest terms.
MmNum == 2214567

MmDen == 781250

\* parse_unit computing inches as picas.
InchesAsPicas(input) ==
    LET signed(sign, num, den) ==
            IF sign = << >> THEN Static(num, den)
            ELSE IF sign = <<"+">> THEN RelativeVal(num, den)
            ELSE RelativeVal(-num, den)
        scaled(caps, n) ==
            CASE caps.unit = <<"p", "t">> -> signed(caps.sign, n.num, n.den)
              [] caps.unit = <<"i", "n">> -> signed(caps.sign, 12 * n.num, n.den)
              [] caps.unit = <<"m", "m">> ->
                    signed(caps.sign, MmNum * n.num, MmDen * n.den)
              [] caps.unit = <<"P">> -> signed(caps.sign, 12 * n.num, n.den)
              [] caps.unit = << >> -> signed(caps.sign, n.num, n.den)
              [] caps.unit = <<"%">> -> signed(caps.sign, n.num, 100 * n.den)
              [] OTHER -> ParseError("InvalidUnit")
        number(caps, n) ==
            IF n = None THEN ParseError("InvalidInt") ELSE scaled(caps, Unwrap(n))
        matched(caps) ==
            IF caps = None THEN ParseError("InvalidUnit")
            ELSE number(Unwrap(caps), parse_f64(Unwrap(caps).num))
    IN  matched(captures(input))

parse_unit(input) ==
    LET signed(sign, num, den) ==
            IF sign = << >> THEN Static(num, den)
            ELSE IF sign = <<"+">> THEN RelativeVal(num, den)
            ELSE RelativeVal(-num, den)
        scaled(caps, n) ==
            CASE caps.unit = <<"p", "t">> -> signed(caps.sign, n.num, n.den)
              [] caps.unit = <<"i", "n">> -> signed(caps.sign, 72 * n.num, n.den)
              [] caps.unit = <<"m", "m">> ->
                    signed(caps.sign, MmNum * n.num, MmDen * n.den)
              [] caps.unit = <<"P">> -> signed(caps.sign, 12 * n.num, n.den)
              [] caps.unit = << >> -> signed(caps.sign, n.num, n.den)
              [] caps.unit = <<"%">> -> signed(caps.sign, n.num, 100 * n.den)
              [] OTHER -> ParseError("InvalidUnit")
        number(caps, n) ==
            IF n = None THEN ParseError("InvalidInt") ELSE scaled(caps, Unwrap(n))
        matched(caps) ==
            IF caps = None THEN ParseError("InvalidUnit")
            ELSE number(Unwrap(caps), parse_f64(Unwrap(caps).num))
    IN  matched(captures(input))

\* PointsVal::value
PointsVal_value(val) ==
    IF val.kind = "Relative" THEN ParseError("InvalidRelative") ELSE val

\* parse_unit_command on the word between the command's square brackets.
parse_unit_command(val) ==
    IF val.kind = "Relative" THEN Relative([num |-> val.num, den |-> val.den])
    ELSE Explicit([num |-> val.num, den |-> val.den])

UnitChars == DigitChars \cup {"+", "-", ".", "p", "t", "i", "n", "m", "P", "%"}

MaxInputLen == 4

UnitInputs == UNION {[1 .. n -> UnitChars] : n \in 1 .. MaxInputLen}

\* The parser is given the argument of a command or of an option.
InitUnits ==
    /\ lb = LayoutBuilder_new
    /\ pc = "parse"
    /\ err = "Ok"
    /\ doc \in {<<[op |-> "Input", arg |-> input]>> : input \in UnitInputs}
    /\ open = << >>

ParseUnit ==
    /\ pc = "parse"
    /\ LET val == parse_unit(doc[1].arg)
       IN  /\ err' = val.err
           /\ pc' = IF val.err = "Ok" THEN "parsed" ELSE "failed"
           /\ doc' = Append(doc, [op |-> "PointsVal", arg |-> val])
    /\ UNCHANGED <<lb, open>>

\* An option's argument: parse_unit(..)?.value()?
OptionValue ==
    /\ pc = "parsed"
    /\ LET val == PointsVal_value(doc[2].arg)
       IN  /\ err' = val.err
           /\ pc' = IF val.err = "Ok" THEN "done" ELSE "failed"
           /\ doc' = Append(doc, [op |-> "f64", arg |-> val])
    /\ UNCHANGED <<lb, open>>

\* A command's argument: the match of parse_unit_command.
CommandArg ==
    /\ pc = "parsed"
    /\ doc' = Append(doc, [op |-> "ResetArg", arg |-> parse_unit_command(doc[2].arg)])
    /\ pc' = "done"
    /\ UNCHANGED <<lb, err, open>>

NextUnits ==
    \/ ParseUnit
    \/ OptionValue
    \/ CommandArg

SpecUnits == InitUnits /\ [][NextUnits]_vars

-----------------------------------------------------------------------------
(* Specifications.  Each explores the documents of at most so many nodes,    *)
(* over one group of commands.                                               *)

MaxParamSteps == 2

\* The document so far has at most n nodes after its config.
Within(n) == Len(doc) <= n

\* Documents of parameter commands and page breaks.
NextParams ==
    \/ ApplyConfig(Configs)
    \/ Within(MaxParamSteps) /\ Align
    \/ Within(MaxParamSteps) /\ Margins
    \/ Within(MaxParamSteps) /\ PageWidth
    \/ Within(MaxParamSteps) /\ PageHeight
    \/ Within(MaxParamSteps) /\ PageBreak
    \/ Within(MaxParamSteps) /\ Leading
    \/ Within(MaxParamSteps) /\ SpaceWidth
    \/ Within(MaxParamSteps) /\ ParIndent
    \/ Within(MaxParamSteps) /\ ParSpace
    \/ Within(MaxParamSteps) /\ Family
    \/ Within(MaxParamSteps) /\ Font
    \/ Within(MaxParamSteps) /\ ConsecutiveHyphens
    \/ Within(MaxParamSteps) /\ LetterSpace
    \/ Within(MaxParamSteps) /\ PtSize(PtSizeArgs)
    \/ Within(MaxParamSteps) /\ HSpace(HSpaceArgs)
    \/ Within(MaxParamSteps) /\ Columns(ColumnsArgs)

SpecParams == Init /\ [][NextParams]_vars

MaxFlowSteps == 4

\* Documents of paragraphs of text and style blocks with the commands that
\* close lines, pages and columns and move between tab stops, in a 20 pt
\* column, justified or left-aligned, and on a page whose column width is
\* stale.
NextFlow ==
    \/ ApplyConfig({NarrowConfig, [NarrowConfig EXCEPT !.alignment = Some("Left")],
                    SmallPageConfig})
    \/ Within(MaxFlowSteps) /\ Paragraph
    \/ Within(MaxFlowSteps) /\ Text(Texts)
    \/ Within(MaxFlowSteps) /\ EndParagraph
    \/ Within(MaxFlowSteps) /\ Bold
    \/ Within(MaxFlowSteps) /\ Quote
    \/ Within(MaxFlowSteps) /\ OpenQuote
    \/ Within(MaxFlowSteps) /\ EndStyle
    \/ Within(MaxFlowSteps) /\ Break
    \/ Within(MaxFlowSteps) /\ Spread
    \/ Within(MaxFlowSteps) /\ VSpace({Pt(10), -Pt(10)})
    \/ Within(MaxFlowSteps) /\ HSpace({Explicit(Pt(6))})
    \/ Within(MaxFlowSteps) /\ PtSize({Explicit(Pt(16))})
    \/ Within(MaxFlowSteps) /\ PageBreak
    \/ Within(MaxFlowSteps) /\ Columns({[count |-> 2, gutter |-> Pt(4)]})
    \/ Within(MaxFlowSteps) /\ ColumnBreak
    \/ Within(MaxFlowSteps) /\ LoadTabs({"main"})
    \/ Within(MaxFlowSteps) /\ Tab({"R"})
    \/ Within(MaxFlowSteps) /\ NextTab
    \/ Within(MaxFlowSteps) /\ PreviousTab
    \/ Within(MaxFlowSteps) /\ QuitTabs
    \/ Within(MaxFlowSteps) /\ EndDocument

SpecFlow == Init /\ [][NextFlow]_vars

MaxHyphenSteps == 4

\* Paragraphs of words that can be hyphenated line after line, in a justified
\* 22 pt column that takes a two-letter word, a space and "de-" exactly, with
\* the limit of consecutive hyphens at its default of 3 or configured as 1 and
\* changed by commands.
NextHyphens ==
    \/ ApplyConfig({[NarrowConfig EXCEPT !.margins = Some(Pt(295))],
                    [NarrowConfig EXCEPT !.margins = Some(Pt(295)),
                                         !.consecutive_hyphens = Some(1)]})
    \/ Within(MaxHyphenSteps) /\ Paragraph
    \/ Within(MaxHyphenSteps)
           /\ Text({<<WordBC, Space, WordDEFG, Space, WordDEFG, Space>>,
                    <<WordDEFG, Space, WordDEFG, Space, WordDEFG, Space>>,
                    <<WordA, Space>>})
    \/ Within(MaxHyphenSteps) /\ EndParagraph
    \/ Within(MaxHyphenSteps) /\ Break
    \/ Within(MaxHyphenSteps) /\ ConsecutiveHyphens
    \/ Within(MaxHyphenSteps) /\ Align

SpecHyphens == Init /\ [][NextHyphens]_vars

MaxStyleSteps == 4

\* Paragraphs of text in Bold, Italic and Smallcaps blocks, nested in any way,
\* with Font commands.
NextStyles ==
    \/ ApplyConfig({NoConfig, NarrowConfig})
    \/ Within(MaxStyleSteps) /\ Paragraph
    \/ Within(MaxStyleSteps) /\ Text({<<WordBC, Space>>, <<WordA, Space, WordDEFG, Space>>})
    \/ Within(MaxStyleSteps) /\ Bold
    \/ Within(MaxStyleSteps) /\ Italic
    \/ Within(MaxStyleSteps) /\ Smallcaps
    \/ Within(MaxStyleSteps) /\ EndStyle
    \/ Within(MaxStyleSteps) /\ Font
    \/ Within(MaxStyleSteps) /\ EndParagraph

SpecStyles == Init /\ [][NextStyles]_vars

MaxTabSteps == 5

\* Paragraphs of text set at tab stops, with a config whose tab list is
\* defined, one whose list names a tab that is not defined, and one whose list
\* names tabs while no tab is defined.
NextTabs ==
    \/ ApplyConfig({NarrowConfig,
                    [NarrowConfig EXCEPT !.tab_lists = [l \in {"main"} |-> <<"L", "X">>]],
                    [NarrowConfig EXCEPT !.tabs = << >>]})
    \/ Within(MaxTabSteps) /\ Paragraph
    \/ Within(MaxTabSteps) /\ Text({<<WordBC, Space>>,
                                    <<WordBC, Space, WordBC, Space, WordBC, Space>>})
    \/ Within(MaxTabSteps) /\ EndParagraph
    \/ Within(MaxTabSteps) /\ LoadTabs(TabListNames)
    \/ Within(MaxTabSteps) /\ Tab(TabNames)
    \/ Within(MaxTabSteps) /\ NextTab
    \/ Within(MaxTabSteps) /\ PreviousTab
    \/ Within(MaxTabSteps) /\ QuitTabs

SpecTabs == Init /\ [][NextTabs]_vars

MaxFontSteps == 4

\* Paragraphs of text and quotes whose family and style change, through pairs
\* of family and style with font data and pairs without.
NextFonts ==
    \/ ApplyConfig({NarrowConfig,
                    [NarrowConfig EXCEPT !.family = Some("serif")]})
    \/ Within(MaxFontSteps) /\ Paragraph
    \/ Within(MaxFontSteps) /\ Text({<<WordBC, Space>>,
                                     <<WordBC, Space, WordBC, Space, WordBC, Space>>})
    \/ Within(MaxFontSteps) /\ EndParagraph
    \/ Within(MaxFontSteps) /\ Bold
    \/ Within(MaxFontSteps) /\ Italic
    \/ Within(MaxFontSteps) /\ Smallcaps
    \/ Within(MaxFontSteps) /\ Quote
    \/ Within(MaxFontSteps) /\ OpenQuote
    \/ Within(MaxFontSteps) /\ EndStyle
    \/ Within(MaxFontSteps) /\ Family
    \/ Within(MaxFontSteps) /\ Font

SpecFonts == Init /\ [][NextFonts]_vars

MaxColumnSteps == 4

\* Text set in one and in two columns of two lines, with column and page
\* breaks and vertical space, and on the default page with a config that sets
\* the point size only.
NextColumns ==
    \/ ApplyConfig({NarrowConfig, [NarrowConfig EXCEPT !.alignment = Some("Left")],
                    [NoConfig EXCEPT !.pt_size = Some(Pt(8))]})
    \/ Within(MaxColumnSteps) /\ Columns({[count |-> 2, gutter |-> Pt(4)]})
    \/ Within(MaxColumnSteps) /\ ColumnBreak
    \/ Within(MaxColumnSteps) /\ PageBreak
    \/ Within(MaxColumnSteps) /\ VSpace({Pt(4), Pt(10), Pt(30)})
    \/ Within(MaxColumnSteps) /\ Paragraph
    \/ Within(MaxColumnSteps) /\ Text({<<WordBC, Space>>,
                                       <<WordBC, Space, WordBC, Space, WordBC, Space>>})
    \/ Within(MaxColumnSteps) /\ EndParagraph

SpecColumns == Init /\ [][NextColumns]_vars

MaxAlignSteps == 4

\* Paragraphs set flush right and centred in a 20 pt column, with line breaks,
\* horizontal space and changes of the space width between their text blocks.
NextAlign ==
    \/ ApplyConfig({[NarrowConfig EXCEPT !.alignment = Some("Right")],
                    [NarrowConfig EXCEPT !.alignment = Some("Center")]})
    \/ Within(MaxAlignSteps) /\ Paragraph
    \/ Within(MaxAlignSteps) /\ Text({<<WordA, Space>>, <<WordBC, Space, WordA>>,
                                      <<WordBC, Space, WordBC, Space, WordBC, Space>>})
    \/ Within(MaxAlignSteps) /\ EndParagraph
    \/ Within(MaxAlignSteps) /\ Break
    \/ Within(MaxAlignSteps) /\ HSpace({Explicit(Pt(6))})
    \/ Within(MaxAlignSteps) /\ SpaceWidth

SpecAlign == Init /\ [][NextAlign]_vars

MaxBreakSteps == 4

\* A 30 pt column with the space width of the point size, 2 pt, or of 6 pt.
WideConfig == [NarrowConfig EXCEPT !.margins = Some(Pt(291))]

LooseConfig == [WideConfig EXCEPT !.space_width = Some(Pt(6))]

\* The words of the paragraphs of NextBreaks: each comes with a space after it.
BreakWords == {WordA, WordBC, WordDEFG, WordLong}

\* Paragraphs of one word and a space at a time, the words with none, one or
\* two places to break them, in a column where the line without the word may
\* be set closer to the space width than any line with a part of it.
NextBreaks ==
    \/ ApplyConfig({WideConfig, LooseConfig,
                    [WideConfig EXCEPT !.consecutive_hyphens = Some(1)]})
    \/ Within(MaxBreakSteps) /\ Paragraph
    \/ Within(MaxBreakSteps) /\ Text({<<w, Space>> : w \in BreakWords})
    \/ Within(MaxBreakSteps) /\ EndParagraph
    \/ Within(MaxBreakSteps) /\ Align
    \/ Within(MaxBreakSteps) /\ ConsecutiveHyphens

SpecBreaks == Init /\ [][NextBreaks]_vars

MaxSpaceSteps == 4

\* Justified paragraphs whose pending line, with one space or more, is closed
\* by every command that closes it, by the end of the paragraph and by the
\* next text, in a column of 20 pt or 30 pt with a tab list to load.
NextSpaces ==
    \/ ApplyConfig({NarrowConfig, WideConfig})
    \/ Within(MaxSpaceSteps) /\ Paragraph
    \/ Within(MaxSpaceSteps)
           /\ Text({<<WordA, Space, WordA, Space>>, <<WordBC, Space, WordA>>,
                    <<WordBC, Space, WordBC, Space, WordBC, Space>>})
    \/ Within(MaxSpaceSteps) /\ EndParagraph
    \/ Within(MaxSpaceSteps) /\ Break
    \/ Within(MaxSpaceSteps) /\ Spread
    \/ Within(MaxSpaceSteps) /\ VSpace({Pt(10)})
    \/ Within(MaxSpaceSteps) /\ HSpace(HSpaceArgs)
    \/ Within(MaxSpaceSteps) /\ LoadTabs({"main"})
    \/ Within(MaxSpaceSteps) /\ Tab(TabNames)
    \/ Within(MaxSpaceSteps) /\ NextTab
    \/ Within(MaxSpaceSteps) /\ PreviousTab

SpecSpaces == Init /\ [][NextSpaces]_vars

MaxPendingSteps == 4

\* Paragraphs whose text is interleaved with the blocks and commands that
\* leave the pending line alone: style blocks, quotes, PtSize, PageBreak,
\* Columns, ColumnBreak, LoadTabs and QuitTabs.
NextPending ==
    \/ ApplyConfig({NarrowConfig, [NarrowConfig EXCEPT !.alignment = Some("Left")]})
    \/ Within(MaxPendingSteps) /\ Paragraph
    \/ Within(MaxPendingSteps)
           /\ Text({<<WordBC, Space>>, <<WordA, Space, WordDEFG, Space>>,
                    <<WordBC, Space, WordBC, Space, WordBC, Space>>})
    \/ Within(MaxPendingSteps) /\ EndParagraph
    \/ Within(MaxPendingSteps) /\ Bold
    \/ Within(MaxPendingSteps) /\ Quote
    \/ Within(MaxPendingSteps) /\ OpenQuote
    \/ Within(MaxPendingSteps) /\ EndStyle
    \/ Within(MaxPendingSteps) /\ Break
    \/ Within(MaxPendingSteps) /\ PtSize({Explicit(Pt(16))})
    \/ Within(MaxPendingSteps) /\ PageBreak
    \/ Within(MaxPendingSteps) /\ Columns({[count |-> 2, gutter |-> Pt(4)]})
    \/ Within(MaxPendingSteps) /\ ColumnBreak
    \/ Within(MaxPendingSteps) /\ LoadTabs({"main"})
    \/ Within(MaxPendingSteps) /\ QuitTabs

SpecPending == Init /\ [][NextPending]_vars

MaxRuleSteps == 4

\* Paragraphs with rules between and inside their lines, in one column or two
\* and at tab stops, left-aligned, justified, centred and flush right.
NextRules ==
    \/ ApplyConfig({NarrowConfig, [NarrowConfig EXCEPT !.alignment = Some("Right")],
                    [NarrowConfig EXCEPT !.alignment = Some("Center")],
                    [NarrowConfig EXCEPT !.alignment = Some("Left")]})
    \/ Within(MaxRuleSteps) /\ Paragraph
    \/ Within(MaxRuleSteps)
           /\ Text({<<WordA, Space>>, <<WordBC, Space, WordBC, Space, WordBC, Space>>})
    \/ Within(MaxRuleSteps) /\ EndParagraph
    \/ Within(MaxRuleSteps) /\ Break
    \/ Within(MaxRuleSteps) /\ Rule
    \/ Within(MaxRuleSteps) /\ Columns({[count |-> 2, gutter |-> Pt(4)]})
    \/ Within(MaxRuleSteps) /\ ColumnBreak
    \/ Within(MaxRuleSteps) /\ LoadTabs({"main"})
    \/ Within(MaxRuleSteps) /\ Tab({"L", "R"})

SpecRules == Init /\ [][NextRules]_vars

MaxGeometrySteps == 3

GeometryColumns ==
    {[count |-> c, gutter |-> g] : c \in 1 .. 3, g \in {Pt(4), Pt(2)}}

\* Documents that change the columns, the margins and the page width and
\* move down and across columns and pages, by command and by overflow, on the
\* default page, on a page with a 20 pt text area and on a narrower page.
NextGeometry ==
    \/ ApplyConfig({NoConfig, NarrowConfig, SmallPageConfig})
    \/ Within(MaxGeometrySteps) /\ Columns(GeometryColumns)
    \/ Within(MaxGeometrySteps) /\ ColumnBreak
    \/ Within(MaxGeometrySteps) /\ PageBreak
    \/ Within(MaxGeometrySteps) /\ VSpace({Pt(10), Pt(700)})
    \/ Within(MaxGeometrySteps) /\ Margins
    \/ Within(MaxGeometrySteps) /\ PageWidth

SpecGeometry == Init /\ [][NextGeometry]_vars

MaxParagraphSteps == 4

\* Paragraphs one after the other, empty or with text, commands and tab
\* stops in them, with and without indent_first, in one column or two.
NextParagraphs ==
    \/ ApplyConfig({NarrowConfig, [NarrowConfig EXCEPT !.indent_first = TRUE],
                    [NoConfig EXCEPT !.alignment = Some("Left")]})
    \/ Within(MaxParagraphSteps) /\ Paragraph
    \/ Within(MaxParagraphSteps)
           /\ Text({<<WordA, Space>>, <<WordBC, Space, WordBC, Space, WordBC, Space>>})
    \/ Within(MaxParagraphSteps) /\ EndParagraph
    \/ Within(MaxParagraphSteps) /\ Bold
    \/ Within(MaxParagraphSteps) /\ EndStyle
    \/ Within(MaxParagraphSteps) /\ PtSize({Explicit(Pt(16))})
    \/ Within(MaxParagraphSteps) /\ ParIndent
    \/ Within(MaxParagraphSteps) /\ Columns({[count |-> 2, gutter |-> Pt(4)]})
    \/ Within(MaxParagraphSteps) /\ LoadTabs({"main"})
    \/ Within(MaxParagraphSteps) /\ Tab({"R"})

SpecParagraphs == Init /\ [][NextParagraphs]_vars

MaxTabStateSteps == 5

\* The tab commands in every order, under a config whose list names its two
\* tabs, one whose list is empty, and one that defines no tab.
NextTabState ==
    \/ ApplyConfig({NarrowConfig,
                    [NarrowConfig EXCEPT !.tab_lists = [l \in {"main"} |-> << >>]],
                    [NarrowConfig EXCEPT !.tabs = << >>]})
    \/ Within(MaxTabStateSteps) /\ Paragraph
    \/ Within(MaxTabStateSteps) /\ Text({<<WordBC, Space>>})
    \/ Within(MaxTabStateSteps) /\ LoadTabs(TabListNames)
    \/ Within(MaxTabStateSteps) /\ Tab(TabNames)
    \/ Within(MaxTabStateSteps) /\ NextTab
    \/ Within(MaxTabStateSteps) /\ PreviousTab
    \/ Within(MaxTabStateSteps) /\ QuitTabs

SpecTabState == Init /\ [][NextTabState]_vars

-----------------------------------------------------------------------------
(* handle_command as a function of the command's name and argument *)

handle_command(s, op, arg) ==
    CASE op = "Align" -> cmd_Align(s, arg)
      [] op = "Margins" -> cmd_Margins(s, arg)
      [] op = "PageWidth" -> cmd_PageWidth(s, arg)
      [] op = "PageHeight" -> cmd_PageHeight(s, arg)
      [] op = "PageBreak" -> cmd_PageBreak(s)
      [] op = "Leading" -> cmd_Leading(s, arg)
      [] op = "SpaceWidth" -> cmd_SpaceWidth(s, arg)
      [] op = "ParIndent" -> cmd_ParIndent(s, arg)
      [] op = "ParSpace" -> cmd_ParSpace(s, arg)
      [] op = "Family" -> cmd_Family(s, arg)
      [] op = "Font" -> cmd_Font(s, arg)
      [] op = "ConsecutiveHyphens" -> cmd_ConsecutiveHyphens(s, arg)
      [] op = "LetterSpace" -> cmd_LetterSpace(s, arg)
      [] op = "PtSize" -> cmd_PtSize(s, arg)
      [] op = "Break" -> cmd_Break(s)
      [] op = "Spread" -> cmd_Spread(s)
      [] op = "VSpace" -> cmd_VSpace(s, arg)
      [] op = "HSpace" -> cmd_HSpace(s, arg)
      [] op = "Rule" -> cmd_Rule(s, arg)
      [] op = "Columns" -> cmd_Columns(s, arg)
      [] op = "ColumnBreak" -> cmd_ColumnBreak(s)
      [] op = "DefineTab" -> Err(s, "TabDefInBody")
      [] op = "TabList" -> Err(s, "TabListInBody")
      [] op = "LoadTabs" -> cmd_LoadTabs(s, arg)
      [] op = "Tab" -> cmd_Tab(s, arg)
      [] op = "NextTab" -> cmd_NextTab(s)
      [] op = "PreviousTab" -> cmd_PreviousTab(s)
      [] op = "QuitTabs" -> cmd_QuitTabs(s)
      [] OTHER -> cmd_Ligatures(s, arg)

-----------------------------------------------------------------------------
(* The parameters with a save-stack, by the name of their command *)

StackOps == {"Align", "Margins", "Leading", "SpaceWidth", "ParIndent", "ParSpace",
             "Family", "Font", "ConsecutiveHyphens", "LetterSpace", "PtSize"}

NumericOps == {"Margins", "Leading", "SpaceWidth", "ParIndent", "ParSpace",
               "ConsecutiveHyphens", "LetterSpace", "PtSize"}

PageDimOps == {"PageWidth", "PageHeight"}

\* The value a command's stack saves and restores.
ParamValue(s, op) ==
    CASE op = "Align" -> s.params.alignment
      [] op = "Margins" -> s.params.margin_bottom
      [] op = "Leading" -> s.params.leading
      [] op = "SpaceWidth" -> s.params.space_width
      [] op = "ParIndent" -> s.params.par_indent
      [] op = "ParSpace" -> s.params.par_space
      [] op = "Family" -> s.params.font_family
      [] op = "Font" -> s.font
      [] op = "ConsecutiveHyphens" -> s.params.consecutive_hyphens
      [] op = "LetterSpace" -> s.params.letter_space
      [] op = "PtSize" -> s.params.pt_size
      [] op = "PageWidth" -> s.params.page_width
      [] OTHER -> s.params.page_height

ParamStack(s, op) ==
    CASE op = "Align" -> s.alignments
      [] op = "Margins" -> s.margins
      [] op = "Leading" -> s.leadings
      [] op = "SpaceWidth" -> s.space_widths
      [] op = "ParIndent" -> s.par_indents
      [] op = "ParSpace" -> s.par_spaces
      [] op = "Family" -> s.families
      [] op = "Font" -> s.fonts
      [] op = "ConsecutiveHyphens" -> s.consecutive_hyphens
      [] op = "LetterSpace" -> s.letter_spaces
      [] op = "PtSize" -> s.pt_sizes
      [] op = "PageWidth" -> s.page_widths
      [] OTHER -> s.page_heights

Pending(s, op) == IF op = "PageWidth" THEN s.pending_width ELSE s.pending_height

FourMargins(s) ==
    <<s.params.margin_top, s.params.margin_bottom, s.params.page_margin_left,
      s.params.page_margin_right>>

\* The Explicit and Relative arguments tried for a numeric parameter.
ChangesOf(op) ==
    LET args == CASE op = "Margins" -> MarginsArgs
                  [] op = "PtSize" -> PtSizeArgs
                  [] op = "ConsecutiveHyphens" -> HyphensArgs
                  [] OTHER -> LengthArgs
    IN  {a \in args : a.kind # "Reset"}

\* The builder as apply_config left it for the document being built.
Configured == apply_config(LayoutBuilder_new, doc[1].arg).lb

\* The node or style block the last step handled.
Handled(d) == Last(d)

-----------------------------------------------------------------------------
(* Page dimensions and the save-stacks (C5 - C10) *)

PageDimsAgree(s) ==
    /\ s.current_page.width = s.params.page_width
    /\ s.current_page.height = s.params.page_height

\* C5: a PageWidth or PageHeight command, whatever its argument, leaves the
\* current page's dimensions, params.page_width, params.page_height and
\* column_width as they are; a pending dimension becomes the dimension of the
\* page opened when the current page is finished; and in every state the
\* current page's width and height are params.page_width and params.page_height.
C5_PageDimsTakeEffectAtBoundary ==
    [][ /\ PageDimsAgree(lb) /\ PageDimsAgree(lb')
        /\ Handled(doc').op \in PageDimOps =>
              /\ lb'.current_page = lb.current_page
              /\ lb'.params.page_width = lb.params.page_width
              /\ lb'.params.page_height = lb.params.page_height
              /\ lb'.column_width = lb.column_width
        /\ Len(lb'.pages) > Len(lb.pages) =>
              /\ lb'.current_page.width =
                     IF IsSome(lb.pending_width) THEN Unwrap(lb.pending_width)
                     ELSE lb.current_page.width
              /\ lb'.current_page.height =
                     IF IsSome(lb.pending_height) THEN Unwrap(lb.pending_height)
                     ELSE lb.current_page.height
              /\ lb'.pending_width = None /\ lb'.pending_height = None ]_vars

\* A PageWidth command was followed by a page break: the finished page kept
\* the old width, the page opened has the new one.
C5_Witness ==
    /\ Len(doc) = 3 /\ err = "Ok"
    /\ doc[2].op = "PageWidth" /\ doc[2].arg.kind = "Explicit"
    /\ doc[3].op = "PageBreak"
    /\ Len(lb.pages) = 1
    /\ lb.pages[1].width = Configured.params.page_width
    /\ lb.current_page.width = doc[2].arg.val
    /\ lb.current_page.width # lb.pages[1].width

\* A change of a numeric parameter followed by its Reset: both succeed, the
\* value (for Margins, all four margins) and the stack are as before.
RoundTrip(s, op, arg) ==
    LET undone(r2) ==
            /\ r2.err = "Ok"
            /\ ParamValue(r2.lb, op) = ParamValue(s, op)
            /\ ParamStack(r2.lb, op) = ParamStack(s, op)
            /\ op = "Margins" => FourMargins(r2.lb) = FourMargins(s)
        changed(r1) == r1.err = "Ok" /\ undone(handle_command(r1.lb, op, Reset))
    IN  changed(handle_command(s, op, arg))

\* C6 as stated: in every reachable state and for every numeric parameter with
\* a save-stack, Explicit(x); Reset and Relative(d); Reset leave the parameter
\* and its stack as they were.
C6_RoundTripAlways ==
    \A op \in NumericOps : \A arg \in ChangesOf(op) : RoundTrip(lb, op, arg)

\* C6, amended: the same, for Margins only while the page has a single column
\* (set_all_margins does not support more: it runs into todo!()).
C6_RoundTrip ==
    \A op \in NumericOps : \A arg \in ChangesOf(op) :
        (op = "Margins" => lb.column_count = 1) => RoundTrip(lb, op, arg)

\* A document changed its font size and reset it: size and stack are those of
\* the config again.
C6_Witness ==
    /\ Len(doc) = 3 /\ err = "Ok"
    /\ doc[2].op = "PtSize" /\ doc[2].arg.kind = "Relative"
    /\ doc[3].op = "PtSize" /\ doc[3].arg.kind = "Reset"
    /\ lb.params.pt_size = Configured.params.pt_size
    /\ lb.pt_sizes = << >>

\* C7: each of the eleven save-stack parameters has a stack of its own.  A
\* successful Explicit or Relative pushes one frame, the value before it; a
\* successful Reset pops one frame and makes it the value; no command touches
\* the stack of another parameter.  Relative(+d); Relative(-d) gives the value
\* back and leaves the two frames p and p + d.
C7_StacksAreLifo ==
    [][ /\ err' = "Ok" =>
              /\ \A q \in StackOps \ {Handled(doc').op} :
                     ParamStack(lb', q) = ParamStack(lb, q)
              /\ Handled(doc').op \in StackOps =>
                     IF Handled(doc').arg.kind = "Reset"
                     THEN /\ ParamStack(lb, Handled(doc').op) # << >>
                          /\ ParamValue(lb', Handled(doc').op) =
                                 Last(ParamStack(lb, Handled(doc').op))
                          /\ ParamStack(lb', Handled(doc').op) =
                                 Front(ParamStack(lb, Handled(doc').op))
                     ELSE ParamStack(lb', Handled(doc').op) =
                              Append(ParamStack(lb, Handled(doc').op),
                                     ParamValue(lb, Handled(doc').op))
        /\ \A op \in NumericOps \ {"ConsecutiveHyphens"} : \A d \in {Pt(2), Pt(4)} :
              LET back(r2) ==
                      r2.err = "Ok" =>
                          /\ ParamValue(r2.lb, op) = ParamValue(lb, op)
                          /\ ParamStack(r2.lb, op) =
                                 ParamStack(lb, op)
                                     \o <<ParamValue(lb, op), ParamValue(lb, op) + d>>
                  forth(r1) ==
                      r1.err = "Ok" => back(handle_command(r1.lb, op, Relative(-d)))
              IN  forth(handle_command(lb, op, Relative(d))) ]_vars

\* Leading was changed, then another parameter: Leading's stack holds the one
\* frame, and its Reset would give the config's leading back.
C7_Witness ==
    /\ Len(doc) = 3 /\ err = "Ok"
    /\ doc[2].op = "Leading" /\ doc[2].arg.kind = "Explicit"
    /\ doc[3].op \in StackOps \ {"Leading"} /\ doc[3].arg.kind # "Reset"
    /\ lb.leadings = <<Configured.params.leading>>
    /\ lb.params.leading = doc[2].arg.val
    /\ cmd_Leading(lb, Reset).lb.params.leading = Configured.params.leading
    /\ cmd_Leading(lb, Reset).lb.leadings = << >>

\* Nothing is saved or pending for the parameter of op.
NothingToReset(s, op) ==
    /\ ParamStack(s, op) = << >>
    /\ op \in PageDimOps => Pending(s, op) = None

\* C8: Reset of a parameter whose save-stack is empty (for PageWidth and
\* PageHeight: and with no pending value) makes build fail with EmptyReset,
\* the builder being exactly as before the Reset.
C8_EmptyResetChangesNothing ==
    [][ ( /\ Handled(doc').op \in StackOps \cup PageDimOps
          /\ Handled(doc').arg.kind = "Reset"
          /\ NothingToReset(lb, Handled(doc').op) )
        => /\ err' = "EmptyReset"
           /\ pc' = "failed"
           /\ lb' = lb ]_vars

\* PageHeight(Reset) failed in a document that had changed another parameter.
C8_Witness ==
    /\ Len(doc) = 3 /\ err = "EmptyReset" /\ pc = "failed"
    /\ doc[2].op = "Leading" /\ doc[2].arg.kind = "Explicit"
    /\ doc[3].op = "PageHeight" /\ doc[3].arg.kind = "Reset"
    /\ lb.leadings # << >>

Cancelled(s, op, x) ==
    LET same(s3) ==
            IF op = "PageWidth" THEN s3.current_page.width = s.current_page.width
            ELSE s3.current_page.height = s.current_page.height
        reset(r2) == r2.err = "Ok" /\ same(finish_page(r2.lb))
        set(r1) == r1.err = "Ok" /\ reset(handle_command(r1.lb, op, Reset))
    IN  set(handle_command(s, op, Explicit(x)))

\* C10 as stated: in any reachable state PageWidth(Explicit(x)) followed at
\* once by PageWidth(Reset), and likewise for PageHeight, raises no error and
\* cancels the change: the next page has the dimensions of the current one.
C10_ResetCancelsAlways ==
    \A op \in PageDimOps : \A x \in {Pt(400), Pt(500)} : Cancelled(lb, op, x)

\* C10, amended: the same in the states where the save-stack of the dimension
\* is empty.  A Reset pops a non-empty stack: the dimension of an earlier page
\* becomes pending.
C10_ResetCancels ==
    \A op \in PageDimOps : \A x \in {Pt(400), Pt(500)} :
        ParamStack(lb, op) = << >> => Cancelled(lb, op, x)

\* PageHeight(Explicit); PageHeight(Reset) was handled: nothing is pending, and
\* the page a page break opens is as high as the current one.
C10_Witness ==
    /\ Len(doc) = 3 /\ err = "Ok"
    /\ doc[2].op = "PageHeight" /\ doc[2].arg.kind = "Explicit"
    /\ doc[3].op = "PageHeight" /\ doc[3].arg.kind = "Reset"
    /\ lb.pending_height = None /\ lb.page_heights = << >>
    /\ doc[2].arg.val # lb.current_page.height
    /\ finish_page(lb).current_page.height = lb.current_page.height


-----------------------------------------------------------------------------
(* The boxes on the pages (C1 - C4) *)

\* The pages built so far and the page being filled.
AllPages(s) == s.pages \o <<s.current_page>>

IsGlyph(b) == b.box = "Glyph"

RECURSIVE Concat(_)
Concat(seqs) == IF seqs = << >> THEN << >> ELSE Head(seqs) \o Concat(Tail(seqs))

\* The Glyph boxes a step has put on the i-th page: all of them on a page the
\* step has opened, the ones after the old boxes on the page it started with.
NewGlyphs(s, t, i) ==
    LET boxes == AllPages(t)[i].boxes
        old == IF i = Len(s.pages) + 1 THEN Len(s.current_page.boxes) ELSE 0
    IN  {boxes[j] : j \in {k \in old + 1 .. Len(boxes) : IsGlyph(boxes[k])}}

\* The pages a step may have put boxes on.
Touched(s, t) == Len(s.pages) + 1 .. Len(t.pages) + 1

GlyphWidth(g, s) ==
    font_units_to_points(XAdvance(g.id), Upem, g.pts) + s.params.letter_space

\* C1: every Glyph box a step emits lies between the bottom margin and the
\* page's height less the top margin and the point size in force.
C1_GlyphsBetweenTopAndBottom ==
    [][ \A i \in Touched(lb, lb') : \A g \in NewGlyphs(lb, lb', i) :
            /\ g.pos.y >= lb'.params.margin_bottom
            /\ g.pos.y <= AllPages(lb')[i].height - lb'.params.margin_top
                              - lb'.params.pt_size ]_vars

\* C2: with no tab stop loaded, no step emits a Glyph box that ends to the
\* right of the page's width less the right margin.
C2_GlyphsLeftOfRightMargin ==
    [][ lb.current_tab = None /\ lb'.current_tab = None =>
            \A i \in Touched(lb, lb') : \A g \in NewGlyphs(lb, lb', i) :
                g.pos.x + GlyphWidth(g, lb')
                    <= lb'.params.page_width - lb'.params.page_margin_right ]_vars


\* The glyph ids of the Glyph boxes of the pages, in page and box order.
EmittedIds(s) ==
    LET ids(boxes) == [j \in 1 .. Len(boxes) |-> boxes[j].id]
        pages == AllPages(s)
    IN  Concat([i \in 1 .. Len(pages) |-> ids(SelectSeq(pages[i].boxes, IsGlyph))])

\* The glyph ids of the chunks waiting for their line.
PendingIds(s) ==
    LET ids(glyphs) == [j \in 1 .. Len(glyphs) |-> glyphs[j].glyph_id]
    IN  Concat([i \in 1 .. Len(s.emit_chunks) |-> ids(s.emit_chunks[i].glyphs)])

\* The characters of the Str units of a document in document order, with the
\* mark that opens every Quote and OpenQuote block and closes every Quote.
InputIds(d) ==
    LET chars(words) == Concat([j \in 1 .. Len(words) |-> words[j].str])
        ids(item) ==
            CASE item.op = "Text" -> chars(item.arg)
              [] item.op \in {"Quote", "OpenQuote"} -> <<OPEN_QUOTE>>
              [] item.op = "EndStyle" ->
                    IF item.arg = "Quote" THEN <<CLOSE_QUOTE>> ELSE << >>
              [] OTHER -> << >>
    IN  Concat([i \in 1 .. Len(d) |-> ids(d[i])])

NotHyphen(id) == id # Hyphen

\* A hyphen follows a character of the text on its line and ends that line.
HyphensEndLines(page) ==
    LET glyphs == SelectSeq(page.boxes, IsGlyph)
    IN  \A i \in 1 .. Len(glyphs) :
            glyphs[i].id = Hyphen =>
                /\ i > 1
                /\ glyphs[i - 1].id \notin {Hyphen, OPEN_QUOTE, CLOSE_QUOTE}
                /\ glyphs[i - 1].pos.y = glyphs[i].pos.y
                /\ i < Len(glyphs) =>
                       ~ /\ glyphs[i + 1].pos.y = glyphs[i].pos.y
                         /\ glyphs[i + 1].pos.x > glyphs[i].pos.x

\* C3: while the build succeeds, the glyphs on the pages followed by those of
\* the chunks waiting for their line are, hyphens apart, the characters of the
\* document's Str units in document order, each once, with the quote marks of
\* its quote blocks in their places; a hyphen ends the line of the characters
\* before it; and when the build is over every glyph is on a finished page.
C3_EveryGlyphOnceInOrder ==
    err = "Ok" =>
        /\ SelectSeq(EmittedIds(lb) \o PendingIds(lb), NotHyphen) = InputIds(doc)
        /\ \A i \in 1 .. Len(AllPages(lb)) : HyphensEndLines(AllPages(lb)[i])
        /\ \A i \in 1 .. Len(PendingIds(lb)) : PendingIds(lb)[i] # Hyphen
        /\ pc = "done" => lb.emit_chunks = << >> /\ lb.current_page.boxes = << >>

\* A built document with a hyphenated line.
C3_Witness ==
    /\ pc = "done" /\ err = "Ok"
    /\ \E i \in 1 .. Len(EmittedIds(lb)) : EmittedIds(lb)[i] = Hyphen
    /\ Len(InputIds(doc)) > 2


\* b does not come before a where the eye reads: further along a's line, or
\* on a lower line.
ReadsAfter(a, b) ==
    \/ b.pos.y = a.pos.y /\ b.pos.x >= a.pos.x
    \/ b.pos.y < a.pos.y

InReadingOrder(page, later(_, _)) ==
    LET glyphs == SelectSeq(page.boxes, IsGlyph)
    IN  \A i, j \in 1 .. Len(glyphs) :
            i < j => ReadsAfter(glyphs[i], glyphs[j]) \/ later(glyphs[i], glyphs[j])

\* A later column lies to the right: where the document has set columns, a
\* box further right than a may be in a later column than a.
MaybeLaterColumn(a, b) ==
    /\ \E i \in 1 .. Len(doc) : doc[i].op = "Columns"
    /\ b.pos.x > a.pos.x

NoLaterColumn(a, b) == FALSE

TextOnly(d) ==
    \A i \in 1 .. Len(d) :
        d[i].op \in {"Config", "Paragraph", "Text", "EndParagraph", "EndDocument",
                     "Bold", "Italic", "Smallcaps", "Quote", "OpenQuote", "EndStyle"}

HasNonBreakingSpace(d) ==
    \E i \in 1 .. Len(d) :
        /\ d[i].op = "Text"
        /\ \E j \in 1 .. Len(d[i].arg) : d[i].arg[j].kind = "NonBreakingSpace"

-----------------------------------------------------------------------------
(* Page boundaries and the pages list (C11 - C13) *)

PageDim(page, op) == IF op = "PageWidth" THEN page.width ELSE page.height

\* Explicit(x), a page break, Reset and a second page break all succeed, and
\* the page then opened has the dimension in force in s.
Restored(s, op, x) ==
    LET back(s4) ==
            /\ PageDim(s4.current_page, op) = ParamValue(s, op)
            /\ ParamValue(s4, op) = ParamValue(s, op)
        reset(r3) == r3.err = "Ok" /\ back(cmd_PageBreak(r3.lb).lb)
        turn(s2) == reset(handle_command(s2, op, Reset))
        set(r1) == r1.err = "Ok" /\ turn(cmd_PageBreak(r1.lb).lb)
    IN  set(handle_command(s, op, Explicit(x)))

\* C11: a step that finishes a page while a width or height is pending pushes
\* the dimension in force on that dimension's save-stack, makes the pending
\* value the dimension in force and clears it; and from every state
\* Explicit(w), page break, Reset, page break opens a page with the dimension
\* that was in force before Explicit(w).
C11_BoundarySavesDimension ==
    [][ /\ \A op \in PageDimOps :
              Len(lb'.pages) > Len(lb.pages) /\ IsSome(Pending(lb, op)) =>
                  /\ ParamStack(lb', op) = Append(ParamStack(lb, op), ParamValue(lb, op))
                  /\ ParamValue(lb', op) = Unwrap(Pending(lb, op))
                  /\ Pending(lb', op) = None
        /\ \A op \in PageDimOps : \A x \in {Pt(400), Pt(500)} :
              Restored(lb', op, x) ]_vars

\* A page break has consumed a pending height: the old height is on the stack.
C11_Witness ==
    /\ Len(doc) = 3 /\ err = "Ok"
    /\ doc[2].op = "PageHeight" /\ doc[3].op = "PageBreak"
    /\ lb.pending_height = None
    /\ lb.page_heights # << >>
    /\ Last(lb.page_heights) = lb.pages[1].height
    /\ lb.params.page_height # lb.pages[1].height
    /\ Restored(lb, "PageHeight", Pt(500))


IsPrefix(p, q) == Len(p) <= Len(q) /\ SubSeq(q, 1, Len(p)) = p

\* C12: a step leaves the pages of the list as and where they are and adds
\* pages at its end only, the page that was being filled first, with its
\* dimensions; and the boxes that page had stay on it in their order, whether
\* it stays the current page or joins the list.
C12_PagesAppendOnly ==
    [][ /\ IsPrefix(lb.pages, lb'.pages)
        /\ IsPrefix(lb.current_page.boxes, AllPages(lb')[Len(lb.pages) + 1].boxes)
        /\ Len(lb'.pages) > Len(lb.pages) =>
               /\ lb'.pages[Len(lb.pages) + 1].width = lb.current_page.width
               /\ lb'.pages[Len(lb.pages) + 1].height = lb.current_page.height ]_vars

\* Two pages with boxes are on the list.
C12_Witness ==
    /\ Len(lb.pages) >= 2
    /\ lb.pages[1].boxes # << >> /\ lb.pages[2].boxes # << >>
    /\ lb.pages[1] # lb.pages[2]


\* C13: the step that ends the build finds no line pending; it appends the
\* page in progress to the pages if that page holds a box and leaves the
\* pages as they are if it holds none, so the output has one page for every
\* page finished during the run and one more if the last page is not empty.
C13_LastPageOnlyIfNotEmpty ==
    [][ pc' = "done" =>
            /\ lb.emit_chunks = << >>
            /\ lb'.pages = IF lb.current_page.boxes # << >>
                           THEN Append(lb.pages, lb.current_page)
                           ELSE lb.pages
            /\ Len(lb'.pages) = Len(lb.pages)
                                   + (IF lb.current_page.boxes = << >> THEN 0 ELSE 1) ]_vars

\* A build has ended with the last page of its output filled by its last
\* paragraph.
C13_Witness ==
    /\ pc = "done" /\ err = "Ok"
    /\ Len(doc) > 3 /\ doc[Len(doc) - 1].op = "EndParagraph"
    /\ lb.pages # << >>
    /\ Last(lb.pages).boxes # << >>
    /\ lb.current_page.boxes = << >>


-----------------------------------------------------------------------------
(* Hyphenation and justified lines (C14, C15) *)

\* The Glyph boxes of all pages in the order of their emission, each with the
\* number of its page.
PlacedGlyphs(s) ==
    LET placed(i, boxes) ==
            [j \in 1 .. Len(boxes) |-> [page |-> i, pos |-> boxes[j].pos,
                                        id |-> boxes[j].id, pts |-> boxes[j].pts]]
        pages == AllPages(s)
    IN  Concat([i \in 1 .. Len(pages) |-> placed(i, SelectSeq(pages[i].boxes, IsGlyph))])

SameLine(a, b) == a.page = b.page /\ a.pos.y = b.pos.y

\* The number of lines in a row that end with a hyphen, up to the line ended
\* by the hyphen g[j]: the line before it counts if it ends with a hyphen, that
\* is if the glyphs after the hyphen before g[j] are all on the line of g[j].
RECURSIVE HyphenRun(_, _)
HyphenRun(g, j) ==
    LET before == {k \in 1 .. j - 1 : g[k].id = Hyphen}
        run(i) == IF \A k \in i + 1 .. j : SameLine(g[k], g[j])
                  THEN 1 + HyphenRun(g, i)
                  ELSE 1
    IN  IF before = {} THEN 1
        ELSE run(CHOOSE i \in before : \A k \in before : k <= i)

NewHyphens(s, t) ==
    {j \in Len(PlacedGlyphs(s)) + 1 .. Len(PlacedGlyphs(t)) :
        PlacedGlyphs(t)[j].id = Hyphen}

\* C14: a line that a step emits with a hyphen at its end is at most the
\* consecutive_hyphens-th such line in a row; the hyphen counter grows only in
\* a step that emits a hyphenated line and not beyond the limit, and it is 0
\* after a step whose last line break was made without a hyphen.
C14_HyphensInARowWithinLimit ==
    [][ /\ \A j \in NewHyphens(lb, lb') :
               HyphenRun(PlacedGlyphs(lb'), j) <= lb.params.consecutive_hyphens
        /\ lb'.hyphens > lb.hyphens =>
               /\ lb'.hyphens <= lb.params.consecutive_hyphens
               /\ NewHyphens(lb, lb') # {}
        /\ lb'.hyphens # 0 /\ NewHyphens(lb, lb') # {} =>
               Last(PlacedGlyphs(lb')).id = Hyphen ]_vars

\* Three lines in a row end with a hyphen, the limit, and the line after them
\* was broken before the word that could have been hyphenated.
C14_Witness ==
    /\ err = "Ok" /\ lb.params.consecutive_hyphens = 3 /\ lb.hyphens = 0
    /\ \E j \in 1 .. Len(PlacedGlyphs(lb)) - 1 :
           /\ PlacedGlyphs(lb)[j].id = Hyphen
           /\ HyphenRun(PlacedGlyphs(lb), j) = 3
           /\ PlacedGlyphs(lb)[Len(PlacedGlyphs(lb))].id # Hyphen


\* Where the glyph g[k] ends.
GlyphEnd(g, k, s) == g[k].pos.x + GlyphWidth(g[k], s)

\* The positions in g, after the first n, of the glyphs that end a line.
LineEnds(g, n) ==
    {j \in n + 1 .. Len(g) : j = Len(g) \/ ~SameLine(g[j], g[j + 1])}

\* The line that g[j] ends has a space: two of its glyphs that follow each
\* other, after the first n of g, are not set side by side.
HasSpace(g, n, j, s) ==
    \E k \in n + 1 .. j - 1 :
        /\ \A i \in k .. j : SameLine(g[i], g[j])
        /\ g[k + 1].pos.x # GlyphEnd(g, k, s)

\* The lines a step has emitted end at the right edge of the column, all of
\* them or the ones with a space.
LinesReachEdge(s, t, all) ==
    \A j \in LineEnds(PlacedGlyphs(t), Len(PlacedGlyphs(s))) :
        all \/ HasSpace(PlacedGlyphs(t), Len(PlacedGlyphs(s)), j, s) =>
            GlyphEnd(PlacedGlyphs(t), j, s) = s.params.col_margin_left + s.column_width

\* The step has handled a text block of a justified paragraph: the lines it
\* has emitted are lines that are not the last of their paragraph.
JustifiedText ==
    /\ Handled(doc').op = "Text" /\ err' = "Ok"
    /\ lb.params.alignment = "Justify"

\* C15 as stated: every line that is not the last of its paragraph and is
\* emitted under Justify ends exactly at the right edge of its column.
C15_JustifiedLinesReachEdge == [][JustifiedText => LinesReachEdge(lb, lb', TRUE)]_vars

\* C15 amended: every such line that has a space between its words ends
\* exactly at the right edge of its column.
C15_JustifiedLinesWithSpaceReachEdge ==
    [][JustifiedText => LinesReachEdge(lb, lb', FALSE)]_vars

\* A justified line whose space is not of the width of the parameters has
\* been emitted, and it ends at the right edge of the column.
C15_Witness ==
    /\ err = "Ok" /\ lb.params.alignment = "Justify"
    /\ \E j \in LineEnds(PlacedGlyphs(lb), 0) : \E k \in 1 .. j - 1 :
           /\ \A i \in k .. j : SameLine(PlacedGlyphs(lb)[i], PlacedGlyphs(lb)[j])
           /\ PlacedGlyphs(lb)[k + 1].pos.x - GlyphEnd(PlacedGlyphs(lb), k, lb)
                  \notin {0, lb.params.space_width}
           /\ GlyphEnd(PlacedGlyphs(lb), j, lb)
                  = lb.params.col_margin_left + lb.column_width


-----------------------------------------------------------------------------
(* Style blocks (C16) *)

StyleBit(name) ==
    CASE name = "Bold" -> BOLD
      [] name = "Italic" -> ITALIC
      [] OTHER -> SMALLCAPS

\* The style block as handle_style_blocks enters it in s.
Entered(s, name) ==
    [kind |-> name, bit |-> StyleBit(name), set |-> s.font \cap StyleBit(name) = {}]

\* handle_style_blocks for a block of the style around the text words, once
\* and nested in a second block of the same style.
Once(s, name, words, debug) ==
    LET close(r) == IF r.err = "Ok" THEN exit_style(r.lb, Entered(s, name)) ELSE r
    IN  close(handle_text_block(enter_style(s, StyleBit(name)), words, debug))

Twice(s, name, words, debug) ==
    LET close(r) == IF r.err = "Ok" THEN exit_style(r.lb, Entered(s, name)) ELSE r
    IN  close(Once(enter_style(s, StyleBit(name)), name, words, debug))

StyleOps == {"Bold", "Italic", "Smallcaps"}

\* C16: a Bold, Italic or Smallcaps block entered while its bit is set changes
\* nothing, on entry and on exit; a block that sets its bit changes the font
\* by that bit only and its exit clears exactly that bit; and from every state
\* of a paragraph a block nested in a block of its style gives its text the
\* font, and leaves the builder with the boxes, the pending line and the font,
\* that the single block does.
C16_NestedStyleIsIdempotent ==
    [][ /\ Handled(doc').op \in StyleOps =>
              lb' = IF lb.font \cap StyleBit(Handled(doc').op) # {} THEN lb
                    ELSE [lb EXCEPT !.font = @ \cup StyleBit(Handled(doc').op)]
        /\ Handled(doc').op = "EndStyle" =>
              lb' = IF Last(open).set
                    THEN [lb EXCEPT !.font = @ \ Last(open).bit]
                    ELSE lb
        /\ pc' = "par" =>
              \A name \in StyleOps :
                  \A words \in {<<WordBC, Space>>, <<WordLong, Space, WordA>>} :
                      \A debug \in BOOLEAN :
                          /\ Twice(lb', name, words, debug) = Once(lb', name, words, debug)
                          /\ enter_style(enter_style(lb', StyleBit(name)),
                                         StyleBit(name)).font
                                 = lb'.font \cup StyleBit(name) ]_vars

\* A Bold block has been entered inside a Bold block and text handled there:
\* the font is bold, and the inner block is recorded as having set nothing.
C16_Witness ==
    /\ err = "Ok" /\ Len(open) = 2
    /\ open[1].kind = "Bold" /\ open[1].set
    /\ open[2].kind = "Bold" /\ ~open[2].set
    /\ Handled(doc).op = "Text"
    /\ lb.font = BOLD
    /\ lb.emit_chunks # << >>


-----------------------------------------------------------------------------
(* Tab stops *)

TabMoves == {"Tab", "NextTab", "PreviousTab"}

DocOps(d) == {d[i].op : i \in DOMAIN d}

\* The index NextTab and PreviousTab move to.
Target(op, ix) == IF op = "NextTab" THEN ix + 1 ELSE ix - 1

\* C17: Tab, NextTab and PreviousTab fail with NoTabsLoaded when no tab list
\* is loaded; Tab with a name that is not in the loaded list fails with
\* UnloadedTab; NextTab at the last index and PreviousTab at index 0 fail with
\* TabOutOfRange and leave current_tab_ix as it was; otherwise NextTab and
\* PreviousTab move current_tab_ix by one and load the tab at the new index.
C17_TabNavigationErrors ==
    [][ Handled(doc').op \in TabMoves =>
            LET op == Handled(doc').op
                name == Handled(doc').arg
            IN  IF ~IsSome(lb.current_tabs)
                THEN err' = "NoTabsLoaded"
                ELSE LET tabs == Unwrap(lb.current_tabs)
                         ix == Unwrap(lb.current_tab_ix)
                     IN  IF op = "Tab"
                         THEN (\A i \in DOMAIN tabs : tabs[i].name # name) =>
                                  err' = "UnloadedTab"
                         ELSE IF Target(op, ix) \in 0..(Len(tabs) - 1)
                              THEN /\ err' = "Ok"
                                   /\ lb'.current_tab_ix = Some(Target(op, ix))
                                   /\ lb'.current_tab = Some(tabs[Target(op, ix) + 1])
                              ELSE /\ err' = "TabOutOfRange"
                                   /\ lb'.current_tab_ix = lb.current_tab_ix ]_vars

C17_Witness ==
    /\ Len(doc) > 3
    /\ doc[Len(doc) - 1].op = "NextTab"
    /\ Handled(doc).op = "NextTab"
    /\ err = "TabOutOfRange"
    /\ lb.current_tab_ix = Some(1)

TabSnapshot(s) ==
    <<s.params.col_margin_left, s.params.col_margin_right, s.column_width,
      s.params.alignment>>

\* C18: LoadTabs records the two column margins, the column width and the
\* alignment, Tab, NextTab and PreviousTab leave the record alone, and QuitTabs
\* puts the four values back and clears the tab state, so that a QuitTabs
\* straight after it, like any QuitTabs with no list loaded, fails with
\* NoTabsLoaded.
C18_QuitTabsRestoresSnapshot ==
    [][ /\ (Handled(doc').op = "LoadTabs" /\ err' = "Ok") =>
               lb'.pre_tab_config = Some(TabSnapshot(lb))
        /\ Handled(doc').op \in TabMoves =>
               lb'.pre_tab_config = lb.pre_tab_config
        /\ Handled(doc').op = "QuitTabs" =>
               IF IsSome(lb.pre_tab_config)
               THEN /\ err' = "Ok"
                    /\ TabSnapshot(lb') = Unwrap(lb.pre_tab_config)
                    /\ lb'.current_tabs = None
                    /\ lb'.current_tab = None
                    /\ lb'.current_tab_ix = None
                    /\ lb'.pre_tab_config = None
                    /\ cmd_QuitTabs(lb').err = "NoTabsLoaded"
               ELSE err' = "NoTabsLoaded" ]_vars

C18_Witness ==
    /\ Len(doc) > 3
    /\ doc[Len(doc) - 2].op = "LoadTabs"
    /\ doc[Len(doc) - 1].op = "Tab"
    /\ doc[Len(doc) - 1].arg = "R"
    /\ Handled(doc).op = "QuitTabs"
    /\ err = "Ok"
    /\ lb.params.alignment = "Justify"


\* The commands handled since the current paragraph began.
SinceParagraph(d) ==
    LET starts == {i \in DOMAIN d : d[i].op = "Paragraph"}
        from == CHOOSE i \in starts : \A j \in starts : j <= i
    IN  IF starts = {} THEN {} ELSE {d[i].op : i \in (from + 1)..Len(d)}

TabMove(s, op, name) ==
    IF op = "Tab" THEN cmd_Tab(s, name)
    ELSE IF op = "NextTab" THEN cmd_NextTab(s)
    ELSE cmd_PreviousTab(s)

\* A tab move that succeeds puts the cursor and the left column margin at the
\* recorded left margin plus the tab's indent and takes the tab's direction as
\* the alignment.
TabPlacesCursor ==
    (Handled(doc').op \in TabMoves /\ err' = "Ok") =>
        LET tab == Unwrap(lb'.current_tab)
        IN  /\ lb'.params.col_margin_left = Unwrap(lb.pre_tab_config)[1] + tab.indent
            /\ lb'.cursor.x = lb'.params.col_margin_left
            /\ lb'.params.alignment = tab.direction

\* The first tab move of a paragraph keeps the cursor's y, and a tab move that
\* follows it after a text block goes back to that y.
TabsShareBaseline ==
    (/\ pc = "par"
     /\ Handled(doc').op \in TabMoves
     /\ err' = "Ok"
     /\ SinceParagraph(doc) \cap TabMoves = {}) =>
        /\ lb'.cursor.y = lb.cursor.y
        /\ \A words \in {<<WordBC, Space>>,
                         <<WordBC, Space, WordBC, Space, WordBC, Space>>} :
               \A op \in TabMoves, name \in TabNames :
                   LET after(r) == r.err = "Ok" => r.lb.cursor.y = lb'.cursor.y
                   IN  after(TabMove(handle_text_block(lb', words, FALSE).lb, op, name))

TabTopCleared ==
    Handled(doc').op = "EndParagraph" => lb'.tab_top = None

\* C19: with a tab list loaded every tab move puts the cursor at x =
\* col_margin_left = the left margin recorded at LoadTabs plus the tab's
\* indent and sets the alignment to the tab's direction; in a paragraph every
\* Tab, NextTab and PreviousTab starts at the cursor y of the paragraph's
\* first tab move, and the end of the paragraph clears the recorded y.
C19_TabsStartAtSnapshotAndBaseline ==
    [][TabPlacesCursor /\ TabsShareBaseline /\ TabTopCleared]_vars


\* The tab names a config's tab lists use without a DefineTab for them.
UndefinedTabNames(config) ==
    UNION {{config.tab_lists[l][i] : i \in DOMAIN config.tab_lists[l]} :
              l \in DOMAIN config.tab_lists}
        \ {config.tabs[i].name : i \in DOMAIN config.tabs}

\* C20: when a tab list of the config names a tab that the config does not
\* define, the build fails with UndefinedTab while the config is applied,
\* before any node of the body, however many tabs the config defines.
C20_UndefinedTabFailsAtConfig ==
    [][(pc = "config" /\ UndefinedTabNames(Handled(doc').arg) # {}) =>
           /\ err' = "UndefinedTab"
           /\ pc' = "failed"]_vars


-----------------------------------------------------------------------------
(* Fonts *)

\* The steps that shape text: a text block, the mark that opens a quote and
\* the mark that closes a Quote.
Shapes(item) ==
    \/ item.op \in {"Text", "Quote", "OpenQuote"}
    \/ item.op = "EndStyle" /\ item.arg = "Quote"

CurrentPair(s) == <<s.params.font_family, s.font>>

PairId(pair) == font_id(pair[1], font_num(pair[2]))

\* The font ids of the glyphs of the pending line.
PendingFonts(s) ==
    UNION {{s.emit_chunks[i].glyphs[j].font_id : j \in DOMAIN s.emit_chunks[i].glyphs} :
              i \in DOMAIN s.emit_chunks}

\* The font ids of the Glyph boxes a step has emitted.
NewFonts(s, t) == UNION {{g.font : g \in NewGlyphs(s, t, i)} : i \in Touched(s, t)}

\* C21: a text block or a quote mark shaped while the current family and
\* style have no font data fails with UnmappedFont, emitting nothing and
\* shaping nothing; every glyph, emitted or pending, carries the font id of a
\* pair with font data: the one current when its chunk was shaped.
C21_GlyphFontsResolve ==
    [][ /\ (Shapes(Handled(doc')) /\ CurrentPair(lb) \notin FontData) =>
               /\ err' = "UnmappedFont"
               /\ pc' = "failed"
               /\ AllPages(lb') = AllPages(lb)
               /\ lb'.emit_chunks = lb.emit_chunks
        /\ (Shapes(Handled(doc')) /\ CurrentPair(lb) \in FontData) =>
               err' # "UnmappedFont"
        /\ NewFonts(lb, lb') \cup PendingFonts(lb')
               \subseteq PendingFonts(lb)
                           \cup (IF Shapes(Handled(doc')) /\ CurrentPair(lb) \in FontData
                                 THEN {PairId(CurrentPair(lb))} ELSE {})
        /\ \A f \in NewFonts(lb, lb') \cup PendingFonts(lb') :
               \E pair \in FontData : f = PairId(pair) ]_vars

C21_Witness ==
    /\ err = "UnmappedFont"
    /\ Handled(doc).op \in {"Quote", "OpenQuote"}
    /\ PendingFonts(lb) # {}
    /\ CurrentPair(lb) \notin FontData


-----------------------------------------------------------------------------
(* Columns and pages *)

\* t is s moved to its next column: the column counter is one higher, both
\* column margins are one column width and gutter further right, the cursor is
\* at the top of the column, and the pages are as they were.
MovedToNextColumn(s, t) ==
    /\ t.current_col = s.current_col + 1
    /\ t.params.col_margin_left
           = s.params.col_margin_left + s.column_width + s.column_gutter
    /\ t.params.col_margin_right
           = s.params.col_margin_right + s.column_width + s.column_gutter
    /\ t.cursor.y = s.column_top
    /\ t.pages = s.pages
    /\ t.current_page = s.current_page

\* C22: in a column that is not the last, a ColumnBreak and a vertical
\* advance that takes the cursor below the bottom margin both move to the
\* next column: current_col + 1, both column margins shifted right by
\* column_width + column_gutter, cursor.y at column_top, no page finished.
C22_BreakAndOverflowMoveToNextColumn ==
    [][ /\ (Handled(doc').op = "ColumnBreak" /\ lb.current_col < lb.column_count) =>
               MovedToNextColumn(lb, lb')
        /\ (/\ Handled(doc').op = "VSpace"
            /\ lb.emit_chunks = << >>
            /\ lb.current_col < lb.column_count
            /\ lb.cursor.y - Handled(doc').arg < lb.params.margin_bottom) =>
               MovedToNextColumn(lb, lb')
        /\ lb'.current_col < lb'.column_count =>
               \A delta_y \in {Pt(4), Pt(10), Pt(30)} :
                   lb'.cursor.y - delta_y < lb'.params.margin_bottom =>
                       MovedToNextColumn(lb', advance_y_cursor(lb', delta_y)) ]_vars

C22_Witness ==
    /\ Len(doc) > 1
    /\ Handled(doc).op = "Text"
    /\ lb.column_count = 2
    /\ lb.current_col = 2
    /\ \A i \in DOMAIN doc : doc[i].op # "ColumnBreak"


\* The cursor is where set_cursor_top_left puts it with the parameters of s.
AtPageTop(s) ==
    /\ s.cursor.x = s.params.page_margin_left
    /\ s.cursor.y = s.params.page_height
                       - (s.params.margin_top + s.params.pt_size + s.params.leading)

\* C23: when a page is begun - the first page once the config is applied, the
\* page after a PageBreak, the page a vertical advance overflows to - the
\* cursor is at x = page_margin_left and y = page_height - (margin_top +
\* pt_size + leading), with the parameters' values of that moment.
C23_CursorAtPageTop ==
    [][ /\ (Handled(doc').op = "Config" /\ err' = "Ok") => AtPageTop(lb')
        /\ Handled(doc').op = "PageBreak" => AtPageTop(lb')
        /\ (Handled(doc').op = "VSpace" /\ Len(lb'.pages) > Len(lb.pages)) =>
               AtPageTop(lb') ]_vars


-----------------------------------------------------------------------------
(* Closing the pending line *)

\* The x of every glyph of a line set from x on with each chunk at its own
\* width: a space at the space width it was created with.
RECURSIVE NominalXs(_, _)
NominalXs(line, x) ==
    IF line = << >> THEN << >>
    ELSE [k \in DOMAIN Head(line).glyphs |-> x + Head(line).glyphs[k].delta_x]
             \o NominalXs(Tail(line), x + chunk_width(Head(line)))

\* The Glyph boxes a step from s to t has added.
AddedGlyphs(s, t) ==
    SubSeq(PlacedGlyphs(t), Len(PlacedGlyphs(s)) + 1, Len(PlacedGlyphs(t)))

LineHeight(s) == s.params.leading + s.params.pt_size

\* C24: Break emits the pending line with every space at its nominal width,
\* under Justify too, then puts cursor.x at page_margin_left and lowers
\* cursor.y by leading + pt_size unless that overflows the column or page;
\* text after the Break is set from there, on a new line.
C24_BreakEndsLine ==
    [][ Handled(doc').op = "Break" =>
            LET added == AddedGlyphs(lb, lb')
            IN  /\ err' = "Ok"
                /\ lb'.emit_chunks = << >>
                /\ [k \in DOMAIN added |-> added[k].id] = PendingIds(lb)
                /\ \A k \in DOMAIN added : added[k].pos.y = lb.cursor.y
                /\ lb.params.alignment \in {"Justify", "Left"} =>
                       [k \in DOMAIN added |-> added[k].pos.x]
                           = NominalXs(lb.emit_chunks, lb.cursor.x)
                /\ lb'.cursor.x = lb.params.page_margin_left
                /\ lb.cursor.y - LineHeight(lb) >= lb.params.margin_bottom =>
                       /\ lb'.cursor.y = lb.cursor.y - LineHeight(lb)
                       /\ lb'.pages = lb.pages
                /\ lb'.params.alignment \in {"Justify", "Left"} =>
                       \A g \in {AddedGlyphs(lb',
                                     cmd_Break(handle_text_block(lb', <<WordA>>,
                                                                 FALSE).lb).lb)} :
                           /\ Len(g) = 1
                           /\ g[1].pos = lb'.cursor ]_vars

C24_Witness ==
    /\ Len(doc) > 3
    /\ Handled(doc).op = "Break"
    /\ doc[Len(doc) - 1].op = "Text" /\ doc[Len(doc) - 1].arg = <<WordA, Space>>
    /\ doc[Len(doc) - 2].op = "Text" /\ doc[Len(doc) - 2].arg = <<WordA, Space>>
    /\ lb.params.alignment = "Justify"
    /\ lb.pages = << >>


\* The width of a line as it is set: every chunk at its own width, less a
\* space that ends the line.
RECURSIVE SetWidth(_)
SetWidth(line) ==
    IF line = << >> THEN 0
    ELSE IF Len(line) = 1 /\ is_space(line[1]) THEN 0
    ELSE chunk_width(Head(line)) + SetWidth(Tail(line))

RightEdge(s) == s.params.col_margin_left + s.column_width

\* Where a line of the given width starts under the alignment of s.
AlignedStart(s, width) ==
    IF s.params.alignment = "Right" THEN RightEdge(s) - width
    ELSE s.params.col_margin_left + FDiv(s.column_width - width, 2)

\* The step emits the whole pending line, which begins with a word.
EmitsPendingLine ==
    /\ Handled(doc').op \in {"Break", "EndParagraph"}
    /\ lb.emit_chunks # << >>
    /\ ~is_space(Head(lb.emit_chunks))

\* C25: under Right the first glyph of a finalized line is at col_margin_left
\* + column_width - total_line_width and the line ends at col_margin_left +
\* column_width; under Center the first glyph is at col_margin_left +
\* (column_width - total_line_width) / 2; either way wherever the cursor was,
\* and with every space at its nominal width.
C25_RightAndCenterPlaceLines ==
    [][ (lb.params.alignment \in {"Right", "Center"} /\ err' = "Ok") =>
            /\ EmitsPendingLine =>
                   LET added == AddedGlyphs(lb, lb')
                   IN  /\ [k \in DOMAIN added |-> added[k].pos.x]
                              = NominalXs(lb.emit_chunks,
                                          AlignedStart(lb, SetWidth(lb.emit_chunks)))
                       /\ lb.params.alignment = "Right" =>
                              GlyphEnd(added, Len(added), lb) = RightEdge(lb)
            /\ (Handled(doc').op = "Text" /\ lb.params.alignment = "Right") =>
                   LinesReachEdge(lb, lb', TRUE) ]_vars


-----------------------------------------------------------------------------
(* Units *)

\* The factor from a unit to points, as num / den, where there is one.
PointsPer(unit) ==
    CASE unit \in {<<"p", "t">>, << >>} -> Some([num |-> 1, den |-> 1])
      [] unit = <<"i", "n">> -> Some([num |-> 72, den |-> 1])
      [] unit = <<"P">> -> Some([num |-> 12, den |-> 1])
      [] unit = <<"m", "m">> -> Some([num |-> 283464576, den |-> 100000000])
      [] unit = <<"%">> -> Some([num |-> 1, den |-> 100])
      [] OTHER -> None

RECURSIVE GCD(_, _)
GCD(a, b) == IF b = 0 THEN a ELSE GCD(b, a % b)

\* num / den in lowest terms.
Lowest(num, den) ==
    [num |-> num \div GCD(Abs(num), den), den |-> den \div GCD(Abs(num), den)]

\* sign * n * factor in lowest terms.
Product(sign, n, factor) ==
    LET f == Lowest(factor.num, factor.den)
    IN  Lowest(sign * n.num * f.num, n.den * f.den)

\* C26: parse_unit turns a number n with a unit into points - pt and no
\* unit: n, in: 72 n, P: 12 n, mm: 2.83464576 n, %: n / 100, any other unit:
\* the error InvalidUnit - and returns a Relative value exactly when the input
\* begins with + or -, negated for -, and a Static value otherwise.
C26_UnitsToPoints ==
    [][ (Handled(doc').op = "PointsVal"
         /\ captures(doc[1].arg) # None
         /\ parse_f64(Unwrap(captures(doc[1].arg)).num) # None) =>
            LET input == doc[1].arg
                val == Handled(doc').arg
                unit == Unwrap(captures(input)).unit
                n == Unwrap(parse_f64(Unwrap(captures(input)).num))
            IN  IF PointsPer(unit) = None
                THEN err' = "InvalidUnit" /\ val.err = "InvalidUnit"
                ELSE /\ err' = "Ok"
                     /\ val.kind = IF Head(input) \in {"+", "-"} THEN "Relative"
                                   ELSE "Static"
                     /\ Lowest(val.num, val.den)
                            = Product(IF Head(input) = "-" THEN -1 ELSE 1, n,
                                      Unwrap(PointsPer(unit))) ]_vars

C26_Witness ==
    /\ pc = "parsed"
    /\ doc[1].arg = <<"-", "5", "m", "m">>
    /\ doc[2].arg = RelativeVal(-5 * 2214567, 781250)


-----------------------------------------------------------------------------
(* Point size and space width *)

MinSpaceIsEighth == lb.params.min_space_width = FDiv(lb.params.pt_size, 8)

\* C27: a PtSize command that succeeds leaves space_width = pt_size / 4 and
\* min_space_width = pt_size / 8 and pushes nothing onto the stack of space
\* widths; min_space_width = pt_size / 8 in every reachable state; a
\* SpaceWidth command changes the space width, and its stack, only.
C27_PtSizeSetsSpaceWidths ==
    /\ []MinSpaceIsEighth
    /\ [][ /\ (Handled(doc').op = "PtSize" /\ err' = "Ok") =>
                  /\ lb'.params.space_width = FDiv(lb'.params.pt_size, 4)
                  /\ lb'.params.min_space_width = FDiv(lb'.params.pt_size, 8)
                  /\ lb'.space_widths = lb.space_widths
           /\ Handled(doc').op = "SpaceWidth" =>
                  lb' = [lb EXCEPT !.params.space_width = lb'.params.space_width,
                                   !.space_widths = lb'.space_widths] ]_vars

C27_Witness ==
    /\ Len(doc) = 3
    /\ doc[2].op = "SpaceWidth"
    /\ doc[3].op = "PtSize"
    /\ err = "Ok"
    /\ lb.space_widths # << >>
    /\ lb.params.pt_size # Pt(12)
    /\ lb.params.space_width = FDiv(lb.params.pt_size, 4)


-----------------------------------------------------------------------------
(* The pending line *)

\* The commands and ends that emit the pending line.
Emitters ==
    {"EndParagraph", "Break", "Spread", "VSpace", "HSpace", "Tab", "NextTab",
     "PreviousTab"}

\* The pending line of s with the chunks of the words added.
WithChunks(s, words) ==
    s.emit_chunks
        \o [i \in DOMAIN words |->
               create_emit_chunk(s, words[i], PairId(CurrentPair(s)))]

Fits(s, line) ==
    total_line_width(s, line) + (s.cursor.x - s.params.col_margin_left)
        <= s.column_width

\* Every chunk of the words keeps the line within the column.
AllFit(s, words) ==
    \A n \in DOMAIN words :
        Fits(s, SubSeq(WithChunks(s, words), 1, Len(s.emit_chunks) + n))

\* The step from s to t has put a Glyph box on a page.
EmitsGlyphs(s, t) == \E i \in Touched(s, t) : NewGlyphs(s, t, i) # {}

\* C28: a text block whose chunks all keep line width + (cursor.x -
\* col_margin_left) <= column_width adds them to the pending line and changes
\* nothing else: no box, cursor, pages and parameters as before.  The pending
\* line stays through the other blocks and commands of the paragraph; glyphs
\* are emitted only by a text block that overflows, at the paragraph's end, by
\* Break, Spread, VSpace and HSpace and by a tab transition.
C28_PendingLineIsCarried ==
    [][ /\ (Handled(doc').op = "Text" /\ err' = "Ok"
               /\ AllFit(lb, Handled(doc').arg)) =>
               lb' = [lb EXCEPT !.emit_chunks = WithChunks(lb, Handled(doc').arg)]
        /\ (Handled(doc').op = "Text" /\ EmitsGlyphs(lb, lb')) =>
               ~AllFit(lb, Handled(doc').arg)
        /\ Handled(doc').op \notin Emitters \cup {"Text"} =>
               /\ ~EmitsGlyphs(lb, lb')
               /\ IsPrefix(lb.emit_chunks, lb'.emit_chunks) ]_vars

C28_Witness ==
    /\ Len(doc) > 4
    /\ Handled(doc).op = "Text"
    /\ doc[Len(doc) - 1].op = "Bold"
    /\ doc[Len(doc) - 2].op = "Text"
    /\ err = "Ok"
    /\ PlacedGlyphs(lb) = << >>
    /\ \E i, j \in DOMAIN lb.emit_chunks :
           /\ lb.emit_chunks[i].kind = "Word" /\ lb.emit_chunks[j].kind = "Word"
           /\ lb.emit_chunks[i].glyphs[1].font_id # lb.emit_chunks[j].glyphs[1].font_id

-----------------------------------------------------------------------------
(* Breaking the word that overflows *)

FontId(s) == font_id(s.params.font_family, font_num(s.font))

\* The pending line of s does not take the word.
Overflows(s, word) ==
    /\ s.emit_chunks # << >>
    /\ total_line_width(s, Append(s.emit_chunks, create_emit_chunk(s, word, FontId(s))))
           + (s.cursor.x - s.params.col_margin_left) > s.column_width

BreakOffsets(word) == {hyphenate(word.str)[i] : i \in DOMAIN hyphenate(word.str)}

StartOf(s, word, b) ==
    create_emit_chunk(s, Str(SubSeq(word.str, 1, b) \o << Hyphen >>), FontId(s))

RestOf(s, word, b) ==
    create_emit_chunk(s, Str(SubSeq(word.str, b + 1, Len(word.str))), FontId(s))

\* The justified space width of the pending line with the word broken at b.
SpacingAt(s, word, b) ==
    justified_space_width(s, Append(s.emit_chunks, StartOf(s, word, b)))

\* The break offsets whose line has spaces of min_space_width at least.
Candidates(s, word) ==
    {b \in BreakOffsets(word) : at_least(SpacingAt(s, word, b), s.params.min_space_width)}

\* No candidate's space width is closer to space_width than that of b.
Closest(s, word, b) ==
    /\ b \in Candidates(s, word)
    /\ \A c \in Candidates(s, word) :
           ~closer_to(SpacingAt(s, word, c), SpacingAt(s, word, b), s.params.space_width)

\* A candidate's space width is closer to space_width than that of the
\* pending line without the word.
BetterThanUnbroken(s, word) ==
    \E b \in Candidates(s, word) :
        closer_to(SpacingAt(s, word, b), justified_space_width(s, s.emit_chunks),
                  s.params.space_width)

MayHyphenate(s) ==
    /\ s.params.alignment = "Justify"
    /\ s.params.hyphenate
    /\ s.hyphens < s.params.consecutive_hyphens

AddedIds(s, t) == [k \in DOMAIN AddedGlyphs(s, t) |-> AddedGlyphs(s, t)[k].id]

\* The step from s to t, a word and a space, has ended the line with the
\* word's first b characters and a hyphen and begun the next with the rest.
CommittedAt(s, t, word, b) ==
    /\ AddedIds(s, t) = PendingIds(s) \o SubSeq(word.str, 1, b) \o << Hyphen >>
    /\ t.emit_chunks = << RestOf(s, word, b), create_emit_chunk(s, Space, FontId(s)) >>
    /\ t.hyphens = s.hyphens + 1

\* The step has ended the line before the word and begun the next with it.
WordMoved(s, t, word) ==
    /\ AddedIds(s, t) = PendingIds(s)
    /\ t.emit_chunks = << create_emit_chunk(s, word, FontId(s)),
                          create_emit_chunk(s, Space, FontId(s)) >>
    /\ t.hyphens = 0

\* The step has handled a word and a space, and the line did not take the word.
WordOverflows ==
    /\ Handled(doc').op = "Text" /\ err' = "Ok"
    /\ Overflows(lb, Head(Handled(doc').arg))

\* What C29 says of a step but for when a break is committed.
BreaksWord(s, t, word) ==
    /\ (\E k \in DOMAIN AddedIds(s, t) : AddedIds(s, t)[k] = Hyphen) => MayHyphenate(s)
    /\ \A b \in BreakOffsets(word) : CommittedAt(s, t, word, b) => Closest(s, word, b)
    /\ (\E b \in BreakOffsets(word) : CommittedAt(s, t, word, b))
           \/ WordMoved(s, t, word)

\* C29 as stated: when the line overflows a hyphen is inserted only under
\* Justify with hyphenate set and the hyphen counter below the limit; the
\* break committed is the candidate whose justified space width is closest to
\* space_width among those of min_space_width at least, and one is committed
\* whenever there is such a candidate (the line ends with the prefix and a
\* hyphen, the next begins with the rest, the counter grows by 1); otherwise
\* the whole word moves to the next line and the counter is 0.
C29_BreakCommittedWheneverOneFits ==
    [][ WordOverflows =>
            /\ BreaksWord(lb, lb', Head(Handled(doc').arg))
            /\ MayHyphenate(lb) /\ Candidates(lb, Head(Handled(doc').arg)) # {} =>
                   \E b \in BreakOffsets(Head(Handled(doc').arg)) :
                       CommittedAt(lb, lb', Head(Handled(doc').arg), b) ]_vars

\* C29 amended: a break is committed exactly when hyphenation is allowed and
\* a candidate's space width is closer to space_width than the space width of
\* the line without the word; the rest as stated.
C29_BreakCommittedWhenCloserThanUnbroken ==
    [][ WordOverflows =>
            /\ BreaksWord(lb, lb', Head(Handled(doc').arg))
            /\ MayHyphenate(lb) /\ BetterThanUnbroken(lb, Head(Handled(doc').arg)) <=>
                   \E b \in BreakOffsets(Head(Handled(doc').arg)) :
                       CommittedAt(lb, lb', Head(Handled(doc').arg), b) ]_vars

\* A word with two candidates has been broken at the second, the closer one.
C29_Witness ==
    /\ Len(doc) > 3 /\ err = "Ok"
    /\ Handled(doc).op = "Text" /\ doc[Len(doc) - 1].op = "Text"
    /\ Handled(doc).arg = <<WordLong, Space>>
    /\ lb.hyphens = 1
    /\ lb.emit_chunks = << RestOf(lb, WordLong, 4), create_emit_chunk(lb, Space, FontId(lb)) >>
    /\ Last(PlacedGlyphs(lb)).id = Hyphen

-----------------------------------------------------------------------------
(* Stretched and nominal spaces *)

\* The commands and the node that emit the pending line as a last line.
LastLineEmitters ==
    {"EndParagraph", "Break", "VSpace", "HSpace", "Tab", "NextTab", "PreviousTab"}

AddedXs(s, t) == [k \in DOMAIN AddedGlyphs(s, t) |-> AddedGlyphs(s, t)[k].pos.x]

\* C30: under Justify the spaces of a line are stretched only when the line
\* is emitted as one that is not the last, by a text block that overflows or
\* by Spread: such a line with a space ends at the right edge of its column;
\* the line emitted at the end of the paragraph, by Break, VSpace, HSpace, Tab,
\* NextTab or PreviousTab is set from the cursor with every space at its own
\* width.
C30_SpacesStretchedOnNonFinalLinesOnly ==
    [][ lb.params.alignment = "Justify" /\ lb.emit_chunks # << >> =>
            /\ (Handled(doc').op \in LastLineEmitters /\ AddedGlyphs(lb, lb') # << >>) =>
                   /\ AddedIds(lb, lb') = PendingIds(lb)
                   /\ AddedXs(lb, lb') = NominalXs(lb.emit_chunks, lb.cursor.x)
            /\ Handled(doc').op = "Spread" =>
                   /\ AddedIds(lb, lb') = PendingIds(lb)
                   /\ LinesReachEdge(lb, lb', FALSE)
            /\ (Handled(doc').op = "Text" /\ err' = "Ok") =>
                   LinesReachEdge(lb, lb', FALSE) ]_vars

\* VSpace has closed the justified line "a a " of a 20 pt column: the second
\* glyph is set 6 pt after the first, the width of a glyph and of a 2 pt space.
C30_Witness ==
    /\ Len(doc) > 3 /\ err = "Ok"
    /\ Handled(doc).op = "VSpace"
    /\ doc[Len(doc) - 1].op = "Text"
    /\ doc[Len(doc) - 1].arg = <<WordA, Space, WordA, Space>>
    /\ doc[Len(doc) - 2].op = "Paragraph"
    /\ lb.column_width = Pt(20)
    /\ Len(PlacedGlyphs(lb)) = 2
    /\ PlacedGlyphs(lb)[2].pos.x = PlacedGlyphs(lb)[1].pos.x + Pt(6)

-----------------------------------------------------------------------------
(* Rules *)

RuleWidth(s, opts) == FDiv(s.column_width * opts.width, 100)

\* Where a rule starts in the column of s under the alignment of s.
RuleStart(s, opts) ==
    CASE s.params.alignment \in {"Left", "Justify"} ->
             s.params.col_margin_left + opts.indent
      [] s.params.alignment = "Center" ->
             s.params.col_margin_left
                 + FDiv(s.column_width - RuleWidth(s, opts), 2) + opts.indent
      [] OTHER ->
             s.params.col_margin_left + s.column_width - opts.indent
                 - RuleWidth(s, opts)

RuleBox(s, opts) ==
    [box |-> "Rule",
     start_pos |-> [x |-> RuleStart(s, opts), y |-> s.cursor.y],
     end_pos |-> [x |-> RuleStart(s, opts) + RuleWidth(s, opts), y |-> s.cursor.y],
     weight |-> opts.weight]

\* C31: Rule appends one Rule box to the current page, horizontal at cursor.y
\* and column_width * width long, that starts at col_margin_left + indent
\* under Left and Justify, at col_margin_left + (column_width - rule_width)/2
\* + indent under Center and at col_margin_left + column_width - indent -
\* rule_width under Right, in every column and at every tab stop; nothing else
\* changes, the cursor and the pending line included.
C31_RuleBoxInColumn ==
    [][ Handled(doc').op = "Rule" =>
            /\ err' = "Ok"
            /\ lb' = [lb EXCEPT !.current_page.boxes =
                                    Append(@, RuleBox(lb, Handled(doc').arg))] ]_vars


\* C32: the Rule box of a Rule command inside a paragraph comes after the
\* glyph boxes of the lines above it and before those of the lines below it,
\* the glyphs of the words before the Rule included: boxes are only appended,
\* so when the Rule box is appended, as the last box of the current page, no
\* word that precedes the Rule is left in the pending line.
C32_RuleAfterWordsBeforeIt ==
    [][ Handled(doc').op = "Rule" /\ pc = "par" =>
            /\ Last(lb'.current_page.boxes).box = "Rule"
            /\ Len(lb'.current_page.boxes) = Len(lb.current_page.boxes) + 1
            /\ lb'.pages = lb.pages
            /\ PendingIds(lb') = << >> ]_vars

-----------------------------------------------------------------------------
(* Column geometry *)

\* The width between the page margins.
TextArea(s) ==
    s.params.page_width - s.params.page_margin_left - s.params.page_margin_right

\* C33: Columns with the count in force changes nothing, whatever the gutter;
\* with another count it sets current_col = 1, col_margin_left =
\* page_margin_left and column_width = (page_width - page_margin_left -
\* page_margin_right - gutter * (count - 1)) / count, so that the columns and
\* the gutters between them fill the text area whenever that width is a whole
\* number of the unit of length.
C33_ColumnsSetsGeometry ==
    [][ Handled(doc').op = "Columns" =>
            LET opts == Handled(doc').arg
                gutters == opts.gutter * (opts.count - 1)
            IN  /\ err' = "Ok"
                /\ opts.count = lb.column_count => lb' = lb
                /\ opts.count # lb.column_count =>
                       /\ lb'.current_col = 1
                       /\ lb'.column_count = opts.count
                       /\ lb'.params.col_margin_left = lb'.params.page_margin_left
                       /\ lb'.column_width
                              = FDiv(TextArea(lb) - gutters, opts.count)
                       /\ (TextArea(lb) - gutters) % opts.count = 0 =>
                              opts.count * lb'.column_width + gutters
                                  = TextArea(lb) ]_vars


\* C34: ColumnBreak in the last column acts like PageBreak: it leaves the
\* builder in the state PageBreak leaves it in, the page finished, a new page
\* begun and the cursor at the top left of the page.
C34_LastColumnBreakIsPageBreak ==
    [][ Handled(doc').op = "ColumnBreak" /\ lb.current_col = lb.column_count =>
            /\ err' = "Ok"
            /\ lb' = cmd_PageBreak(lb).lb
            /\ lb'.pages = Append(lb.pages, lb.current_page)
            /\ lb'.current_page.boxes = << >>
            /\ AtPageTop(lb') ]_vars

-----------------------------------------------------------------------------
(* Paragraphs *)

ParagraphSpace(s) == s.params.leading + s.params.pt_size + s.params.par_space

\* The chunks of the pending line are all of one point size: finalize_line
\* sets the line on the baseline the cursor is on.
OneSize(s) ==
    \A i, j \in DOMAIN s.emit_chunks : s.emit_chunks[i].pt_size = s.emit_chunks[j].pt_size

-----------------------------------------------------------------------------
(* A word wider than its column *)

\* The text block begins, on an empty pending line, with a word that the
\* column does not take: the word is emitted on its own.
OverlongAlone(s, words) ==
    /\ s.emit_chunks = << >>
    /\ Head(words).kind = "Str"
    /\ Len(words) > 1
    /\ ~Fits(s, << create_emit_chunk(s, Head(words), FontId(s)) >>)

\* C36: after a word wider than the column has been emitted on its own the
\* line is closed: no glyph of a later word of the block is set on the
\* baseline of that word, and the cursor waits for the next word at
\* col_margin_left, leading + pt_size below it.
C36_OverlongWordClosesLine ==
    [][ (Handled(doc').op = "Text" /\ err' = "Ok"
            /\ OverlongAlone(lb, Handled(doc').arg)) =>
            LET added == AddedGlyphs(lb, lb')
                long == Len(Head(Handled(doc').arg).str)
            IN  /\ Len(added) >= long
                /\ \A k \in DOMAIN added :
                       k > long => ~SameLine(added[k], added[1])
                /\ Len(added) = long =>
                       /\ lb'.cursor.x = lb'.params.col_margin_left
                       /\ lb'.cursor.y < lb.cursor.y ]_vars


-----------------------------------------------------------------------------
(* The line after an overflow *)

\* The step from s to t left the column of s: for the next column or for the
\* first column of a new page.
LeftColumn(s, t) ==
    \/ t.current_col # s.current_col
    \/ Len(t.pages) > Len(s.pages)

\* C37: when a line break or the end of a paragraph advances the cursor below
\* the bottom margin in the middle of a paragraph, and the cursor moves to the
\* next column or page, the next line starts inside the new column: cursor.x
\* is the new col_margin_left.
C37_NextLineStartsInNewColumn ==
    [][ (/\ Handled(doc').op \in {"Text", "EndParagraph"}
         /\ err' = "Ok"
         /\ pc = "par"
         /\ LeftColumn(lb, lb')) =>
            lb'.cursor.x = lb'.params.col_margin_left ]_vars


-----------------------------------------------------------------------------
(* Consistent column geometry *)

\* The left edge of the current column, counted from the page margin.
ColumnLeft(s) ==
    s.params.page_margin_left
        + (s.current_col - 1) * (s.column_width + s.column_gutter)

\* C38: in every state with no tab list loaded the column geometry is
\* consistent: 1 <= current_col <= column_count, and col_margin_left is
\* page_margin_left + (current_col - 1) * (column_width + column_gutter).
C38_ColumnGeometryConsistent ==
    (err = "Ok" /\ ~IsSome(lb.current_tabs)) =>
        /\ 1 <= lb.current_col
        /\ lb.current_col <= lb.column_count
        /\ lb.params.col_margin_left = ColumnLeft(lb)


-----------------------------------------------------------------------------
(* The width of the single column *)

\* C39: once the config is applied, with one column and no tab list loaded,
\* column_width = page_width - page_margin_left - page_margin_right in every
\* state, whatever the config sets and after every Margins command and every
\* change of the page width.
C39_SingleColumnSpansTextArea ==
    (/\ pc # "config"
     /\ err = "Ok"
     /\ lb.column_count = 1
     /\ ~IsSome(lb.current_tabs)) =>
        lb.column_width = TextArea(lb)


-----------------------------------------------------------------------------
(* Consistent tab state *)

\* The three fields of the tab state are set together, and the index points
\* into the loaded list (current_tab_ix counts from 0).
TabStateConsistent(s) ==
    \/ /\ ~IsSome(s.pre_tab_config)
       /\ ~IsSome(s.current_tabs)
       /\ ~IsSome(s.current_tab_ix)
    \/ /\ IsSome(s.pre_tab_config)
       /\ IsSome(s.current_tabs)
       /\ IsSome(s.current_tab_ix)
       /\ Unwrap(s.current_tab_ix) >= 0
       /\ Unwrap(s.current_tab_ix) < Len(Unwrap(s.current_tabs))

\* C40: in every state pre_tab_config, current_tabs and current_tab_ix are
\* all set or all unset, and when set current_tab_ix is an index into the
\* loaded list; so no Tab, NextTab or PreviousTab finds a field unset that an
\* expect() takes to be set. The one panic of a tab command is the index
\* tabs[0] of a LoadTabs whose list is empty, which is no expect().
C40_TabStateConsistent ==
    /\ err # "Panic" => TabStateConsistent(lb)
    /\ err = "Panic" =>
           /\ Handled(doc).op = "LoadTabs"
           /\ Handled(doc).arg \in DOMAIN lb.tab_lists
           /\ lb.tab_lists[Handled(doc).arg] = << >>

C40_Witness ==
    /\ Len(doc) > 5
    /\ err = "Ok"
    /\ doc[2].op = "LoadTabs"
    /\ doc[3].op = "QuitTabs"
    /\ doc[4].op = "LoadTabs"
    /\ doc[5].op = "NextTab"
    /\ doc[6].op = "PreviousTab"
    /\ lb.current_tab_ix = Some(0)
    /\ IsSome(lb.pre_tab_config)
    /\ Len(Unwrap(lb.current_tabs)) = 2

=============================================================================
